---- MODULE Spec2Model ----
(***************************************************************************)
(* Model of the lumbar-exercise habit tracker: the SQLite session store,   *)
(* SessionService, the statistics query of SessionRepository, the guided   *)
(* workout of SessionScreen, RoutineService, the duration estimate and the *)
(* validation of ExerciseService, the start of the app, the seeding of the *)
(* database, SettingsRepository, MockSessionRepository, and service calls  *)
(* and button handlers that overlap at their awaits.                       *)
(*                                                                         *)
(* Conventions.  Time is counted in ticks; TicksPerDay ticks make one      *)
(* calendar day, so a timestamp ts lies on UTC day ts \div TicksPerDay and *)
(* on local day (ts + tzOffset) \div TicksPerDay.  A 'yyyy-MM-dd' string   *)
(* is modelled by its day number (the fixed-width format makes the string  *)
(* order the chronological order), an ISO-8601 instant by the pair         *)
(* <<UTC day, tick of day>>.  Decimal id strings are sequences of digit    *)
(* characters.  JavaScript undefined / SQL NULL is the value NONE.         *)
(***************************************************************************)
EXTENDS Integers, Sequences, FiniteSets, TLC

\* ---------------------------------------------------------------- bounds
MaxSessions == 1
MaxTime == 1
TicksPerDay == 2
MaxOffset == 1
MaxDay == 5
MaxDup == 23
MaxOpen == 17
MaxTimer == 2
MaxList == 3
MaxRoutines == 1
MaxSeeds == 2
MaxInflight == 2
MaxPending == 2

NONE == -1
NaN == -2

\* ------------------------------------------------- strings and numbers
Digits == <<"0", "1", "2", "3", "4", "5", "6", "7", "8", "9">>

DigitVal(ch) == IF \E i \in 1..10 : Digits[i] = ch
                THEN (CHOOSE i \in 1..10 : Digits[i] = ch) - 1
                ELSE NONE

RECURSIVE ToStr(_)
\* Number.prototype.toString() of a non-negative integer
ToStr(n) == IF n < 10 THEN <<Digits[n + 1]>>
            ELSE Append(ToStr(n \div 10), Digits[(n % 10) + 1])

RECURSIVE ParseDigits(_, _)
ParseDigits(s, acc) ==
    IF s = <<>> \/ DigitVal(Head(s)) = NONE THEN acc
    ELSE ParseDigits(Tail(s), acc * 10 + DigitVal(Head(s)))

\* parseInt(s, 10): the longest decimal prefix, NaN when there is none
ParseInt(s) == IF s = <<>> \/ DigitVal(Head(s)) = NONE THEN NaN
               ELSE ParseDigits(s, 0)

\* ----------------------------------- IEEE-754 double precision arithmetic
\* A positive double is [m1, m2, m3, e]: its 53-bit significand is
\* m1 * 2^36 + m2 * 2^18 + m3 (m1 has 17 bits with the top bit set, m2 and m3
\* have 18 bits) and its value is significand * 2^e.  The three limbs keep
\* every intermediate product below 2^31.
LimbBits == 18

Limb == 2 ^ LimbBits

DoubleZero == [m1 |-> 0, m2 |-> 0, m3 |-> 0, e |-> 0]

DoubleOne == [m1 |-> 2 ^ 16, m2 |-> 0, m3 |-> 0, e |-> 0 - 52]

RECURSIVE LeadZeros(_, _)
\* number of 0 bits before the first 1 bit of the binary fraction r / t,
\* for 0 < r < t
LeadZeros(r, t) == IF 2 * r >= t THEN 0 ELSE 1 + LeadZeros(2 * r, t)

RECURSIVE BitLen(_)
BitLen(n) == IF n = 0 THEN 0 ELSE 1 + BitLen(n \div 2)

\* the next 18 bits of the binary fraction r / t and what is left of it
DivStep(r, t) ==
    LET a == (r * 512) \div t
        ra == (r * 512) % t
        b == (ra * 512) \div t
        rb == (ra * 512) % t
    IN  [d |-> a * 512 + b, r |-> rb]

\* add one unit in the last place, renormalising when the significand
\* reaches 2^53
NextUp(d) ==
    LET s3 == d.m3 + 1
        s2 == d.m2 + (s3 \div Limb)
        s1 == d.m1 + (s2 \div Limb)
    IN  IF s1 = 2 ^ 17
        THEN [m1 |-> 2 ^ 16, m2 |-> 0, m3 |-> 0, e |-> d.e + 1]
        ELSE [m1 |-> s1, m2 |-> s2 % Limb, m3 |-> s3 % Limb, e |-> d.e]

\* round to nearest, ties to even: d holds the first 53 bits, guard is the
\* next bit and sticky tells whether anything non-zero follows it
RoundNearestEven(d, guard, sticky) ==
    IF guard = 1 /\ (sticky \/ d.m3 % 2 = 1) THEN NextUp(d) ELSE d

\* the double c / t, for integers 0 <= c <= t, t > 0
DoubleDiv(c, t) ==
    IF c = 0 THEN DoubleZero
    ELSE IF c = t THEN DoubleOne
    ELSE LET z == LeadZeros(c, t)
             s1 == DivStep(c * (2 ^ z), t)
             s2 == DivStep(s1.r, t)
             s3 == DivStep(s2.r, t)
             \* s1.d s2.d s3.d are the first 54 significant bits
             first == [m1 |-> s1.d \div 2,
                       m2 |-> (s1.d % 2) * (2 ^ 17) + s2.d \div 2,
                       m3 |-> (s2.d % 2) * (2 ^ 17) + s3.d \div 2,
                       e |-> 0 - (z + 53)]
         IN  RoundNearestEven(first, s3.d % 2, s3.r # 0)

\* the double d * k, for an integer 0 <= k < 2^12
DoubleMulNat(d, k) ==
    IF d = DoubleZero \/ k = 0 THEN DoubleZero
    ELSE LET p3 == d.m3 * k
             p2 == d.m2 * k + p3 \div Limb
             p1 == d.m1 * k + p2 \div Limb
             q2 == p2 % Limb
             q3 == p3 % Limb
             \* the exact product is p1 * 2^36 + q2 * 2^18 + q3;
             \* sh of its bits do not fit in the significand
             sh == BitLen(p1) - 17
             cut == 2 ^ sh
             up == 2 ^ (LimbBits - sh)
             first == [m1 |-> p1 \div cut,
                       m2 |-> (p1 % cut) * up + q2 \div cut,
                       m3 |-> (q2 % cut) * up + q3 \div cut,
                       e |-> d.e + sh]
         IN  IF sh = 0 THEN first
             ELSE RoundNearestEven(first, (q3 \div (2 ^ (sh - 1))) % 2,
                                   q3 % (2 ^ (sh - 1)) # 0)

\* Math.round of a double 0 <= d < 2^16: the nearest integer, ties upwards
MathRound(d) ==
    IF d = DoubleZero THEN 0
    ELSE LET s == 0 - d.e
         IN  IF s > 53 THEN 0
             ELSE IF s = 53 THEN 1
             ELSE (d.m1 \div (2 ^ (s - 36))) + ((d.m1 \div (2 ^ (s - 37))) % 2)

\* ------------------------------------------------------- dates and time
\* Date.prototype.toISOString(): the UTC calendar day and the time of day
ToISOString(ms) == <<ms \div TicksPerDay, ms % TicksPerDay>>

\* an absent (undefined) ISO instant
NoTime == <<>>

\* an absent (null) id string
NoId == <<>>

\* new Date(iso).getTime()
GetTime(iso) == iso[1] * TicksPerDay + iso[2]

\* iso.split('T')[0]: the date part of an ISO instant, a UTC date
DatePart(iso) == iso[1]

\* format(date, 'yyyy-MM-dd') of date-fns: the calendar day in the device's
\* time zone
FormatLocalDate(ms, tz) == (ms + tz) \div TicksPerDay

\* differenceInDays(startOfDay(a), startOfDay(b)) of date-fns, for two local
\* midnights given by their day numbers: the number of full days from b to a
DifferenceInDays(a, b) == a - b

\* Math.max
Max2(a, b) == IF a >= b THEN a ELSE b

RECURSIVE SortDesc(_)
\* [...set].sort().reverse()
SortDesc(S) ==
    IF S = {} THEN <<>>
    ELSE LET m == CHOOSE x \in S : \A y \in S : y <= x
         IN  <<m>> \o SortDesc(S \ {m})

\* ---------------------------------------------------------------- state
VARIABLES
    now,              \* the device clock, in ticks since the epoch
    tzOffset,         \* local time minus UTC, in ticks
    exercises_table,  \* table exercises: id -> row
    routines,         \* table routines: id -> row
    routine_seq,      \* AUTOINCREMENT sequence of routines
    session_logs,     \* table session_logs: id -> row
    session_seq,      \* AUTOINCREMENT sequence of session_logs
    exercises,        \* SessionScreen state: the resolved exercises
    sessionId,        \* SessionScreen state: id of the session, or NoId
    loading,          \* SessionScreen state
    currentIndex,     \* SessionScreen state: 0-based index of the exercise
    isComplete,       \* SessionScreen state: the summary is rendered
    isPaused,         \* SessionScreen state
    timer,            \* SessionScreen state: elapsed seconds
    intervalRef,      \* SessionScreen ref: TRUE when it holds an interval id
    intervals,        \* the number of setInterval timers that are active
    mounted,          \* a SessionScreen is on screen
    lastOp,           \* the last call: its name, arguments and error
    stats,            \* the Statistics returned by the last getStatistics
    completedToday,   \* the result of the last hasCompletedToday
    input,            \* the argument of the last call of a pure function
    output,           \* the value returned by the last call that returns one
    inflight,         \* SessionService calls between their read and their write
    handlers,         \* handleComplete calls that are awaiting a store call
    storage,          \* AsyncStorage item '@lumbar_app_settings': <<text>>, or <<>>
    DEFAULT_SETTINGS  \* the object held by SettingsRepository.DEFAULT_SETTINGS

dbVars == <<exercises_table, routines, routine_seq, session_logs, session_seq>>
screenVars == <<exercises, sessionId, loading, currentIndex, isComplete, isPaused,
                timer, intervalRef, intervals, mounted>>
vars == <<now, tzOffset, exercises_table, routines, routine_seq, session_logs,
          session_seq, exercises, sessionId, loading, currentIndex, isComplete,
          isPaused, timer, intervalRef, intervals, mounted, lastOp, stats, completedToday,
          input, output, inflight, handlers, storage, DEFAULT_SETTINGS>>

callVars == <<input, output>>
settingsVars == <<storage, DEFAULT_SETTINGS>>
asyncVars == <<inflight, handlers>>

\* a store call rejects
StorageFailure == "storage failure"

\* no call is under way
NoCalls ==
    /\ inflight = {}
    /\ handlers = {}

NoError == "none"

OpArgs(name, id, args, err) == [op |-> name, id |-> id, args |-> args, err |-> err]

Op(name, id, err) == OpArgs(name, id, <<>>, err)

NoStats == [totalSessions |-> NONE, currentStreak |-> NONE,
            longestStreak |-> NONE, completionRate |-> NONE,
            lastSessionDate |-> NONE]

\* ------------------------------------------------ SessionRepository
\* JSON.stringify of one ExerciseCompletion: undefined members are left out
CompletionToJson(c) ==
    LET base == [exerciseId |-> c.exerciseId, completed |-> c.completed]
        withReps == IF c.reps = NONE THEN base
                    ELSE [k \in DOMAIN base \cup {"reps"} |->
                            IF k = "reps" THEN c.reps ELSE base[k]]
    IN  IF c.duration = NONE THEN withReps
        ELSE [k \in DOMAIN withReps \cup {"duration"} |->
                IF k = "duration" THEN c.duration ELSE withReps[k]]

\* JSON.parse of one ExerciseCompletion; a missing member reads as undefined
CompletionFromJson(j) ==
    [exerciseId |-> j.exerciseId,
     completed |-> j.completed,
     reps |-> IF "reps" \in DOMAIN j THEN j.reps ELSE NONE,
     duration |-> IF "duration" \in DOMAIN j THEN j.duration ELSE NONE]

mapFromDb(id, dbSession) ==
    [id |-> ToStr(id),
     routineId |-> ToStr(dbSession.routine_id),
     startTime |-> ToISOString(dbSession.start_timestamp),
     endTime |-> IF dbSession.end_timestamp # NONE /\ dbSession.end_timestamp # 0
                 THEN ToISOString(dbSession.end_timestamp) ELSE NoTime,
     exercises |-> [i \in 1..Len(dbSession.exercises_done) |->
                      CompletionFromJson(dbSession.exercises_done[i])],
     completed |-> dbSession.completed = 1]

\* mapToDb without the end_timestamp column
mapToDbNoEnd(session) ==
    [routine_id |-> ParseInt(session.routineId),
     date_iso |-> DatePart(session.startTime),
     start_timestamp |-> GetTime(session.startTime),
     end_timestamp |-> NONE,
     exercises_done |-> [i \in 1..Len(session.exercises) |->
                           CompletionToJson(session.exercises[i])],
     completed |-> IF session.completed THEN 1 ELSE 0]

mapToDb(session) ==
    [routine_id |-> ParseInt(session.routineId),
     date_iso |-> DatePart(session.startTime),
     start_timestamp |-> GetTime(session.startTime),
     end_timestamp |-> IF session.endTime # NoTime THEN GetTime(session.endTime)
                       ELSE NONE,
     exercises_done |-> [i \in 1..Len(session.exercises) |->
                           CompletionToJson(session.exercises[i])],
     completed |-> IF session.completed THEN 1 ELSE 0]

\* getById without the WHERE clause: the first row when there is any
getByIdFirstRow(logs, id) ==
    IF DOMAIN logs # {}
    THEN LET k == CHOOSE i \in DOMAIN logs : \A j \in DOMAIN logs : i <= j
         IN  <<mapFromDb(k, logs[k])>>
    ELSE <<>>

\* SELECT * FROM session_logs WHERE id = ?; the result is <<session>> or,
\* for null, the empty sequence
getById(logs, id) ==
    IF ParseInt(id) \in DOMAIN logs
    THEN <<mapFromDb(ParseInt(id), logs[ParseInt(id)])>>
    ELSE <<>>

\* INSERT INTO session_logs ...: the table after the insert
save(logs, seq, session) ==
    [i \in DOMAIN logs \cup {seq + 1} |->
        IF i = seq + 1 THEN mapToDb(session) ELSE logs[i]]

\* UPDATE session_logs SET ... WHERE id = ?
update(logs, session) ==
    [i \in DOMAIN logs |->
        IF i = ParseInt(session.id) THEN mapToDb(session) ELSE logs[i]]

\* DELETE FROM session_logs WHERE id = ?
delete(logs, id) == [i \in DOMAIN logs \ {ParseInt(id)} |-> logs[i]]

\* SELECT * FROM session_logs WHERE date_iso = ?
getByDate(logs, date_iso) ==
    {mapFromDb(i, logs[i]) : i \in {j \in DOMAIN logs : logs[j].date_iso = date_iso}}

\* --------------------------------- SessionRepository.getStatistics
RECURSIVE CurrentStreakLoopTodayOnly(_, _, _, _)
\* the first loop when it starts a streak only from a session of today
CurrentStreakLoopTodayOnly(uniqueDates, today, i, acc) ==
    IF i >= Len(uniqueDates) THEN acc
    ELSE IF i = 0 /\ DifferenceInDays(today, uniqueDates[i + 1]) = 0
    THEN CurrentStreakLoopTodayOnly(uniqueDates, today, i + 1,
             [currentStreak |-> acc.currentStreak + 1,
              tempStreak |-> 1,
              longestStreak |-> Max2(acc.longestStreak, 1)])
    ELSE IF i > 0 /\ DifferenceInDays(uniqueDates[i], uniqueDates[i + 1]) = 1
    THEN CurrentStreakLoopTodayOnly(uniqueDates, today, i + 1,
             [currentStreak |-> acc.currentStreak + 1,
              tempStreak |-> acc.tempStreak + 1,
              longestStreak |-> Max2(acc.longestStreak, acc.tempStreak + 1)])
    ELSE acc

RECURSIVE CurrentStreakLoopNoLongest(_, _, _, _)
\* the first loop without its longestStreak = Math.max(...) statement
CurrentStreakLoopNoLongest(uniqueDates, today, i, acc) ==
    IF i >= Len(uniqueDates) THEN acc
    ELSE LET daysDiff == DifferenceInDays(today, uniqueDates[i + 1])
         IN  IF i = 0 /\ (daysDiff = 0 \/ daysDiff = 1)
             THEN CurrentStreakLoopNoLongest(uniqueDates, today, i + 1,
                      [acc EXCEPT !.currentStreak = @ + 1, !.tempStreak = 1])
             ELSE IF i > 0 /\ DifferenceInDays(uniqueDates[i], uniqueDates[i + 1]) = 1
             THEN CurrentStreakLoopNoLongest(uniqueDates, today, i + 1,
                      [acc EXCEPT !.currentStreak = @ + 1, !.tempStreak = @ + 1])
             ELSE acc

RECURSIVE CurrentStreakLoop(_, _, _, _)
\* the first for loop, entered at index i (0-based) with the counters in acc;
\* its result is the counters when the loop is left
CurrentStreakLoop(uniqueDates, today, i, acc) ==
    IF i >= Len(uniqueDates) THEN acc
    ELSE LET sessionDate == uniqueDates[i + 1]
             daysDiff == DifferenceInDays(today, sessionDate)
         IN  IF i = 0 /\ (daysDiff = 0 \/ daysDiff = 1)
             THEN CurrentStreakLoop(uniqueDates, today, i + 1,
                      [currentStreak |-> acc.currentStreak + 1,
                       tempStreak |-> 1,
                       longestStreak |-> Max2(acc.longestStreak, 1)])
             ELSE IF i > 0 /\ DifferenceInDays(uniqueDates[i], uniqueDates[i + 1]) = 1
             THEN CurrentStreakLoop(uniqueDates, today, i + 1,
                      [currentStreak |-> acc.currentStreak + 1,
                       tempStreak |-> acc.tempStreak + 1,
                       longestStreak |-> Max2(acc.longestStreak, acc.tempStreak + 1)])
             ELSE acc

RECURSIVE LongestStreakLoop(_, _, _, _)
\* the second for loop, entered at index i with tempStreak and longestStreak
LongestStreakLoop(uniqueDates, i, tempStreak, longestStreak) ==
    IF i >= Len(uniqueDates) THEN longestStreak
    ELSE IF DifferenceInDays(uniqueDates[i], uniqueDates[i + 1]) = 1
    THEN LongestStreakLoop(uniqueDates, i + 1, tempStreak + 1,
                           Max2(longestStreak, tempStreak + 1))
    ELSE LongestStreakLoop(uniqueDates, i + 1, 1, longestStreak)

\* Math.round((completed / total) * 100), 0 for an empty table
CompletionRate(completed, total) ==
    IF total > 0 THEN MathRound(DoubleMulNat(DoubleDiv(completed, total), 100))
    ELSE 0

getStatistics(logs, clock, tz) ==
    LET completedSessions == {i \in DOMAIN logs : logs[i].completed = 1}
        total == Cardinality(DOMAIN logs)
        completed == Cardinality(completedSessions)
        today == FormatLocalDate(clock, tz)
        uniqueDates == SortDesc({logs[i].date_iso : i \in completedSessions})
        first == CurrentStreakLoop(uniqueDates, today, 0,
                     [currentStreak |-> 0, tempStreak |-> 0, longestStreak |-> 0])
        longest == LongestStreakLoop(uniqueDates, 1, 1, first.longestStreak)
    IN  [totalSessions |-> total,
         currentStreak |-> first.currentStreak,
         longestStreak |-> longest,
         completionRate |-> CompletionRate(completed, total),
         lastSessionDate |-> IF Len(uniqueDates) > 0 THEN uniqueDates[1] ELSE NONE]

\* --------------------------------------------------- SessionService
\* markExerciseComplete without the findIndex: always push
UpsertAlwaysPush(list, completion) == Append(list, completion)

\* the exercises array after the upsert of markExerciseComplete
Upsert(list, completion) ==
    LET hits == {i \in 1..Len(list) : list[i].exerciseId = completion.exerciseId}
        existingIndex == IF hits = {} THEN NONE
                         ELSE CHOOSE i \in hits : \A j \in hits : i <= j
    IN  IF existingIndex # NONE THEN [list EXCEPT ![existingIndex] = completion]
        ELSE Append(list, completion)

CreateSession(routineId) ==
    /\ session_seq < MaxSessions
    /\ LET session == [routineId |-> routineId,
                       startTime |-> ToISOString(now),
                       endTime |-> NoTime,
                       exercises |-> <<>>,
                       completed |-> FALSE]
       IN  /\ session_logs' = save(session_logs, session_seq, session)
           /\ session_seq' = session_seq + 1
           /\ lastOp' = Op("createSession", ToStr(session_seq + 1), NoError)
    /\ UNCHANGED <<callVars, now, tzOffset, asyncVars, settingsVars, exercises_table, routines, routine_seq, screenVars, stats,
                   completedToday>>

MarkExerciseComplete(id, exerciseId, reps, duration) ==
    /\ LET found == getById(session_logs, id)
       IN  IF found = <<>>
           THEN /\ lastOp' = OpArgs("markExerciseComplete", id,
                                     <<exerciseId, reps, duration>>,
                                     "Session not found")
                /\ UNCHANGED session_logs
           ELSE LET session == found[1]
                    completion == [exerciseId |-> exerciseId, completed |-> TRUE,
                                   reps |-> reps, duration |-> duration]
                    updated == [session EXCEPT
                                  !.exercises = Upsert(session.exercises, completion)]
                IN  /\ session_logs' = update(session_logs, updated)
                    /\ lastOp' = OpArgs("markExerciseComplete", id,
                                         <<exerciseId, reps, duration>>, NoError)
    /\ UNCHANGED <<callVars, now, tzOffset, asyncVars, settingsVars, exercises_table, routines, routine_seq, session_seq,
                   screenVars, stats, completedToday>>

FinishSession(id) ==
    /\ LET found == getById(session_logs, id)
       IN  IF found = <<>>
           THEN /\ lastOp' = Op("finishSession", id, "Session not found")
                /\ UNCHANGED session_logs
           ELSE LET session == found[1]
                    updated == [session EXCEPT !.endTime = ToISOString(now),
                                               !.completed = TRUE]
                IN  /\ session_logs' = update(session_logs, updated)
                    /\ lastOp' = Op("finishSession", id, NoError)
    /\ UNCHANGED <<callVars, now, tzOffset, asyncVars, settingsVars, exercises_table, routines, routine_seq, session_seq,
                   screenVars, stats, completedToday>>

DeleteSession(id) ==
    /\ session_logs' = delete(session_logs, id)
    /\ lastOp' = Op("deleteSession", id, NoError)
    /\ UNCHANGED <<callVars, now, tzOffset, asyncVars, settingsVars, exercises_table, routines, routine_seq, session_seq,
                   screenVars, stats, completedToday>>

GetStatistics ==
    /\ stats' = getStatistics(session_logs, now, tzOffset)
    /\ lastOp' = Op("getStatistics", <<>>, NoError)
    /\ UNCHANGED <<callVars, now, tzOffset, asyncVars, settingsVars, dbVars, screenVars, completedToday>>

HasCompletedToday ==
    /\ LET today == FormatLocalDate(now, tzOffset)
           sessions == getByDate(session_logs, today)
       IN  completedToday' = (\E s \in sessions : s.completed)
    /\ lastOp' = Op("hasCompletedToday", <<>>, NoError)
    /\ UNCHANGED <<callVars, now, tzOffset, asyncVars, settingsVars, dbVars, screenVars, stats>>

\* a number that tells a new call from the calls under way in S
FreeSlot(S, max) == CHOOSE n \in 1..max : \A c \in S : c.n # n

\* markExerciseComplete up to its await of repository.update: the session
\* object read by getById, changed in memory
BeginMarkExerciseComplete(id, exerciseId, reps, duration) ==
    /\ Cardinality(inflight) < MaxInflight
    /\ LET found == getById(session_logs, id)
           completion == [exerciseId |-> exerciseId, completed |-> TRUE,
                          reps |-> reps, duration |-> duration]
       IN  IF found = <<>>
           THEN /\ lastOp' = OpArgs("markExerciseComplete", id,
                                     <<exerciseId, reps, duration>>,
                                     "Session not found")
                /\ UNCHANGED inflight
           ELSE /\ inflight' = inflight \cup
                      {[n |-> FreeSlot(inflight, MaxInflight),
                        op |-> "markExerciseComplete", id |-> id,
                        args |-> <<exerciseId, reps, duration>>,
                        session |-> [found[1] EXCEPT
                           !.exercises = Upsert(found[1].exercises, completion)]]}
                /\ lastOp' = OpArgs("getById", id, <<exerciseId, reps, duration>>,
                                    NoError)
    /\ UNCHANGED <<callVars, now, tzOffset, settingsVars, handlers, dbVars, screenVars,
                   stats, completedToday>>

\* finishSession up to its await of repository.update
BeginFinishSession(id) ==
    /\ Cardinality(inflight) < MaxInflight
    /\ LET found == getById(session_logs, id)
       IN  IF found = <<>>
           THEN /\ lastOp' = Op("finishSession", id, "Session not found")
                /\ UNCHANGED inflight
           ELSE /\ inflight' = inflight \cup
                      {[n |-> FreeSlot(inflight, MaxInflight),
                        op |-> "finishSession", id |-> id, args |-> <<>>,
                        session |-> [found[1] EXCEPT !.endTime = ToISOString(now),
                                                     !.completed = TRUE]]}
                /\ lastOp' = Op("getById", id, NoError)
    /\ UNCHANGED <<callVars, now, tzOffset, settingsVars, handlers, dbVars, screenVars,
                   stats, completedToday>>

\* repository.update of a call under way is run and the call returns
ReturnFromUpdate(call) ==
    /\ call \in inflight
    /\ session_logs' = update(session_logs, call.session)
    /\ inflight' = inflight \ {call}
    /\ lastOp' = OpArgs(call.op, call.id, call.args, NoError)
    /\ UNCHANGED <<callVars, now, tzOffset, settingsVars, handlers, exercises_table,
                   routines, routine_seq, session_seq, screenVars, stats,
                   completedToday>>

\* ----------------------------------------------- MockSessionRepository
\* the sessions array of a MockSessionRepository that was given the calls
\* that produced the table logs: save pushes, update replaces in place and
\* delete filters, so the array lists the sessions in the order of their ids
MockSessions(logs) ==
    LET ids == SortDesc(DOMAIN logs)
        n == Len(ids)
    IN  [k \in 1..n |-> mapFromDb(ids[n + 1 - k], logs[ids[n + 1 - k]])]

\* MockSessionRepository.getStatistics
mockGetStatistics(sessions) ==
    LET completedSessions == {k \in DOMAIN sessions : sessions[k].completed}
    IN  [totalSessions |-> Len(sessions),
         currentStreak |-> 0,
         longestStreak |-> 0,
         completionRate |-> CompletionRate(Cardinality(completedSessions), Len(sessions)),
         lastSessionDate |-> IF Len(sessions) > 0 THEN DatePart(sessions[1].startTime)
                             ELSE NONE]

\* getStatistics of a MockSessionRepository holding the same history
MockGetStatistics ==
    /\ stats' = mockGetStatistics(MockSessions(session_logs))
    /\ lastOp' = Op("MockSessionRepository.getStatistics", <<>>, NoError)
    /\ UNCHANGED <<callVars, now, tzOffset, asyncVars, settingsVars, dbVars, screenVars, completedToday>>

\* the device clock advances
Tick ==
    /\ now < TicksPerDay + MaxTime
    /\ now' = now + 1
    /\ lastOp' = Op("tick", <<>>, NoError)
    /\ UNCHANGED <<callVars, tzOffset, asyncVars, settingsVars, dbVars, screenVars, stats, completedToday>>

\* ------------------------------- ExerciseRepository, RoutineRepository
ExerciseFromDb(id, dbExercise) ==
    [id |-> ToStr(id),
     type |-> IF dbExercise.duration_seconds # NONE THEN "duration" ELSE "reps",
     reps |-> dbExercise.repetitions,
     duration |-> dbExercise.duration_seconds,
     sets |-> dbExercise.sets,
     rest |-> dbExercise.rest_seconds]

\* SELECT * FROM exercises WHERE id = ?; <<exercise>>, or <<>> for null
getExerciseById(tbl, id) ==
    IF ParseInt(id) \in DOMAIN tbl
    THEN <<ExerciseFromDb(ParseInt(id), tbl[ParseInt(id)])>>
    ELSE <<>>

RoutineFromDb(id, dbRoutine) ==
    [id |-> ToStr(id),
     name |-> dbRoutine.title,
     type |-> dbRoutine.type,
     exerciseIds |-> [i \in 1..Len(dbRoutine.exercise_order) |->
                        ToStr(dbRoutine.exercise_order[i])]]

\* SELECT * FROM routines WHERE id = ?; <<routine>>, or <<>> for null
getRoutineById(tbl, id) ==
    IF ParseInt(id) \in DOMAIN tbl
    THEN <<RoutineFromDb(ParseInt(id), tbl[ParseInt(id)])>>
    ELSE <<>>

\* ----------------------------------------------------- RoutineService
RECURSIVE ResolveExercisesUntilMissing(_, _)
\* the for loop when it ends at the first id without a catalog row
ResolveExercisesUntilMissing(tbl, exerciseIds) ==
    IF exerciseIds = <<>> \/ getExerciseById(tbl, Head(exerciseIds)) = <<>> THEN <<>>
    ELSE getExerciseById(tbl, Head(exerciseIds))
            \o ResolveExercisesUntilMissing(tbl, Tail(exerciseIds))

RECURSIVE ResolveExercises(_, _)
\* the for loop of getRoutineExercises: ids without a catalog row are skipped
ResolveExercises(tbl, exerciseIds) ==
    IF exerciseIds = <<>> THEN <<>>
    ELSE LET exercise == getExerciseById(tbl, Head(exerciseIds))
             rest == ResolveExercises(tbl, Tail(exerciseIds))
         IN  exercise \o rest

\* getRoutineExercises returning an empty list for an unknown routine
getRoutineExercisesOrEmpty(routineTbl, exerciseTbl, routineId) ==
    LET routine == getRoutineById(routineTbl, routineId)
    IN  IF routine = <<>> THEN [err |-> NoError, value |-> <<>>]
        ELSE [err |-> NoError,
              value |-> ResolveExercises(exerciseTbl, routine[1].exerciseIds)]

\* the result of getRoutineExercises, or the error it throws
getRoutineExercises(routineTbl, exerciseTbl, routineId) ==
    LET routine == getRoutineById(routineTbl, routineId)
    IN  IF routine = <<>> THEN [err |-> "Routine not found", value |-> <<>>]
        ELSE [err |-> NoError,
              value |-> ResolveExercises(exerciseTbl, routine[1].exerciseIds)]

\* the catalog and the two default routines written by Database.seedData:
\* the routines list disjoint halves of the catalog
SeedExercises ==
    [i \in 1..5 |->
        IF i \in {1, 5}
        THEN [repetitions |-> 10, duration_seconds |-> NONE, sets |-> 3,
              rest_seconds |-> 30]
        ELSE [repetitions |-> NONE, duration_seconds |-> 30, sets |-> 2,
              rest_seconds |-> 15]]

SeedRoutines ==
    <<[title |-> "Morning Routine", type |-> "morning", exercise_order |-> <<1, 2>>],
      [title |-> "Evening Routine", type |-> "evening", exercise_order |-> <<3, 4, 5>>]>>

\* JavaScript white space, as far as the inputs have any
WhiteSpace == {" ", "\t", "\n"}

RECURSIVE TrimStart(_)
TrimStart(str) ==
    IF str # <<>> /\ Head(str) \in WhiteSpace THEN TrimStart(Tail(str)) ELSE str

RECURSIVE TrimEnd(_)
TrimEnd(str) ==
    IF str # <<>> /\ str[Len(str)] \in WhiteSpace
    THEN TrimEnd(SubSeq(str, 1, Len(str) - 1)) ELSE str

\* String.prototype.trim, a string being the sequence of its characters
Trim(str) == TrimEnd(TrimStart(str))

\* RoutineRepository.mapToDb
RoutineToDb(routine) ==
    [title |-> routine.name,
     type |-> routine.type,
     exercise_order |-> [i \in 1..Len(routine.exerciseIds) |->
                           ParseInt(routine.exerciseIds[i])]]

\* INSERT INTO routines (title, type, exercise_order): the table afterwards
saveRoutine(tbl, seq, routine) ==
    [i \in DOMAIN tbl \cup {seq + 1} |->
        IF i = seq + 1 THEN RoutineToDb(routine) ELSE tbl[i]]

\* DELETE FROM routines WHERE id = ?
deleteRoutineRow(tbl, id) == [i \in DOMAIN tbl \ {ParseInt(id)} |-> tbl[i]]

\* DELETE FROM exercises WHERE id = ?
deleteExerciseRow(tbl, id) == [i \in DOMAIN tbl \ {ParseInt(id)} |-> tbl[i]]

\* the for loop of createRoutine: the positions of the ids without an exercise
MissingAt(exerciseTbl, exerciseIds) ==
    {i \in 1..Len(exerciseIds) : getExerciseById(exerciseTbl, exerciseIds[i]) = <<>>}

\* createRoutine that validates the exercises before the title
createRoutineIdsFirst(routineTbl, seq, exerciseTbl, title, exerciseIds) ==
    LET missing == MissingAt(exerciseTbl, exerciseIds)
        routine == [id |-> ToStr(0), name |-> title, type |-> "custom",
                    exerciseIds |-> exerciseIds]
    IN  IF missing # {}
        THEN [err |-> "Exercise with ID not found",
              id |-> exerciseIds[CHOOSE i \in missing : \A j \in missing : i <= j],
              routines |-> routineTbl, seq |-> seq]
        ELSE IF title = <<>> \/ Trim(title) = <<>>
        THEN [err |-> "Routine title is required", id |-> <<>>,
              routines |-> routineTbl, seq |-> seq]
        ELSE IF Len(exerciseIds) = 0
        THEN [err |-> "Routine must contain at least one exercise", id |-> <<>>,
              routines |-> routineTbl, seq |-> seq]
        ELSE [err |-> NoError, id |-> <<>>,
              routines |-> saveRoutine(routineTbl, seq, routine), seq |-> seq + 1]

\* RoutineService.createRoutine: the error thrown (`Exercise with ID ${id}
\* not found` is the error and the id it names) and the table afterwards
createRoutine(routineTbl, seq, exerciseTbl, title, exerciseIds) ==
    LET missing == MissingAt(exerciseTbl, exerciseIds)
        routine == [id |-> ToStr(0), name |-> title, type |-> "custom",
                    exerciseIds |-> exerciseIds]
    IN  IF title = <<>> \/ Trim(title) = <<>>
        THEN [err |-> "Routine title is required", id |-> <<>>,
              routines |-> routineTbl, seq |-> seq]
        ELSE IF Len(exerciseIds) = 0
        THEN [err |-> "Routine must contain at least one exercise", id |-> <<>>,
              routines |-> routineTbl, seq |-> seq]
        ELSE IF missing # {}
        THEN [err |-> "Exercise with ID not found",
              id |-> exerciseIds[CHOOSE i \in missing : \A j \in missing : i <= j],
              routines |-> routineTbl, seq |-> seq]
        ELSE [err |-> NoError, id |-> <<>>,
              routines |-> saveRoutine(routineTbl, seq, routine), seq |-> seq + 1]

\* deleteRoutine without the check of the routine's type
deleteRoutineAnyType(routineTbl, routineId) ==
    IF getRoutineById(routineTbl, routineId) = <<>>
    THEN [err |-> "Routine not found", routines |-> routineTbl]
    ELSE [err |-> NoError, routines |-> deleteRoutineRow(routineTbl, routineId)]

\* RoutineService.deleteRoutine: the error thrown and the table afterwards
deleteRoutine(routineTbl, routineId) ==
    LET routine == getRoutineById(routineTbl, routineId)
    IN  IF routine = <<>>
        THEN [err |-> "Routine not found", routines |-> routineTbl]
        ELSE IF routine[1].type = "morning" \/ routine[1].type = "evening"
        THEN [err |-> "Cannot delete default routines", routines |-> routineTbl]
        ELSE [err |-> NoError, routines |-> deleteRoutineRow(routineTbl, routineId)]

\* UPDATE routines SET title = ?, type = ?, exercise_order = ? WHERE id = ?
updateRoutineRow(tbl, routine) ==
    [i \in DOMAIN tbl |->
        IF i = ParseInt(routine.id) THEN RoutineToDb(routine) ELSE tbl[i]]

\* RoutineService.updateRoutineExercises: the error thrown, the id it names
\* and the table afterwards
updateRoutineExercises(routineTbl, exerciseTbl, routineId, exerciseIds) ==
    LET routine == getRoutineById(routineTbl, routineId)
        missing == MissingAt(exerciseTbl, exerciseIds)
    IN  IF routine = <<>>
        THEN [err |-> "Routine not found", id |-> <<>>, routines |-> routineTbl]
        ELSE IF missing # {}
        THEN [err |-> "Exercise with ID not found",
              id |-> exerciseIds[CHOOSE i \in missing : \A j \in missing : i <= j],
              routines |-> routineTbl]
        ELSE [err |-> NoError, id |-> <<>>,
              routines |-> updateRoutineRow(routineTbl,
                              [routine[1] EXCEPT !.exerciseIds = exerciseIds])]

UpdateRoutineExercises(routineId, exerciseIds) ==
    /\ LET result == updateRoutineExercises(routines, exercises_table, routineId,
                                            exerciseIds)
       IN  /\ routines' = result.routines
           /\ output' = result.id
           /\ lastOp' = OpArgs("updateRoutineExercises", routineId, <<exerciseIds>>,
                               result.err)
    /\ UNCHANGED <<input, now, tzOffset, asyncVars, settingsVars, exercises_table,
                   routine_seq, session_logs, session_seq, screenVars, stats,
                   completedToday>>

CreateRoutine(title, exerciseIds) ==
    /\ routine_seq < Len(SeedRoutines) + MaxRoutines
    /\ LET result == createRoutine(routines, routine_seq, exercises_table,
                                   title, exerciseIds)
       IN  /\ routines' = result.routines
           /\ routine_seq' = result.seq
           /\ output' = result.id
           /\ lastOp' = OpArgs("createRoutine", <<>>, <<title, exerciseIds>>,
                               result.err)
    /\ UNCHANGED <<input, now, tzOffset, asyncVars, settingsVars, exercises_table, session_logs,
                   session_seq, screenVars, stats, completedToday>>

DeleteRoutine(routineId) ==
    /\ LET result == deleteRoutine(routines, routineId)
       IN  /\ routines' = result.routines
           /\ lastOp' = Op("deleteRoutine", routineId, result.err)
    /\ UNCHANGED <<callVars, now, tzOffset, asyncVars, settingsVars, exercises_table, routine_seq,
                   session_logs, session_seq, screenVars, stats, completedToday>>

\* an exercise is removed from the catalog
DeleteExercise(id) ==
    /\ exercises_table' = deleteExerciseRow(exercises_table, id)
    /\ lastOp' = Op("deleteExercise", id, NoError)
    /\ UNCHANGED <<callVars, now, tzOffset, asyncVars, settingsVars, routines, routine_seq, session_logs,
                   session_seq, screenVars, stats, completedToday>>

GetRoutineExercises(routineId) ==
    /\ LET result == getRoutineExercises(routines, exercises_table, routineId)
       IN  /\ output' = result.value
           /\ lastOp' = Op("getRoutineExercises", routineId, result.err)
    /\ UNCHANGED <<input, now, tzOffset, asyncVars, settingsVars, dbVars, screenVars, stats, completedToday>>

\* a value that `if (x)` takes for true: a number other than undefined and 0
Truthy(x) == x # NONE /\ x # 0

\* the value of Math.ceil(n / d) as an integer, for d > 0.  Math.ceil gives
\* -0 for -1 < n / d < 0; its value is the integer 0.
MathCeilDiv(n, d) == 0 - ((0 - n) \div d)

RECURSIVE TotalSeconds(_)
\* the for loop of calculateTotalDuration and of calculateRoutineDuration
TotalSeconds(exs) ==
    IF exs = <<>> THEN 0
    ELSE LET exercise == Head(exs)
         IN  (IF Truthy(exercise.duration) THEN exercise.duration
              ELSE IF Truthy(exercise.reps) THEN exercise.reps * 3
              ELSE 0) + TotalSeconds(Tail(exs))

\* calculateTotalDuration with Math.round in place of Math.ceil
calculateTotalDurationRound(exs) ==
    (TotalSeconds(exs) + (Len(exs) - 1) * 10 + 30) \div 60

\* ExerciseService.calculateTotalDuration
calculateTotalDuration(exs) ==
    MathCeilDiv(TotalSeconds(exs) + (Len(exs) - 1) * 10, 60)

\* RoutineService.calculateRoutineDuration: the error thrown, the value
calculateRoutineDuration(routineTbl, exerciseTbl, routineId) ==
    LET resolved == getRoutineExercises(routineTbl, exerciseTbl, routineId)
    IN  IF resolved.err # NoError THEN [err |-> resolved.err, value |-> NONE]
        ELSE [err |-> NoError,
              value |-> MathCeilDiv(TotalSeconds(resolved.value)
                                      + (Len(resolved.value) - 1) * 10, 60)]

CalculateTotalDuration ==
    /\ output' = calculateTotalDuration(input)
    /\ lastOp' = Op("calculateTotalDuration", <<>>, NoError)
    /\ UNCHANGED <<input, now, tzOffset, asyncVars, settingsVars, dbVars, screenVars, stats, completedToday>>

CalculateRoutineDuration(routineId) ==
    /\ LET result == calculateRoutineDuration(routines, exercises_table, routineId)
       IN  /\ output' = result.value
           /\ lastOp' = Op("calculateRoutineDuration", routineId, result.err)
    /\ UNCHANGED <<input, now, tzOffset, asyncVars, settingsVars, dbVars, screenVars, stats, completedToday>>

\* milliseconds of a calendar day
MsPerDay == 86400000

\* new Date(iso).getTime() for an ISO instant with millisecond precision,
\* <<UTC day, millisecond of the day>>
DateMs(iso) == iso[1] * MsPerDay + iso[2]

\* the ISO instant of a time in milliseconds
IsoOfMs(ms) == <<ms \div MsPerDay, ms % MsPerDay>>

\* Math.round(durationMs / 1000 / 60).  durationMs / 1000 / 60 ends in .5
\* only for durationMs = 60000 k + 30000, where both divisions are exact;
\* any other quotient is at least 1 / 60000 away from a tie, far more than
\* the rounding error of two divisions, so the result is the integer one
MathRoundMinutes(durationMs) == (durationMs + 30000) \div 60000

\* calculateSessionDuration that rounds up
calculateSessionDurationCeil(session) ==
    IF session.endTime = NoTime THEN 0
    ELSE MathCeilDiv(DateMs(session.endTime) - DateMs(session.startTime), 60000)

\* SessionService.calculateSessionDuration
calculateSessionDuration(session) ==
    IF session.endTime = NoTime THEN 0
    ELSE LET startMs == DateMs(session.startTime)
             endMs == DateMs(session.endTime)
             durationMs == endMs - startMs
         IN  MathRoundMinutes(durationMs)

CalculateSessionDuration ==
    /\ output' = calculateSessionDuration(input)
    /\ lastOp' = Op("calculateSessionDuration", <<>>, NoError)
    /\ UNCHANGED <<input, now, tzOffset, asyncVars, settingsVars, dbVars, screenVars, stats,
                   completedToday>>

\* an optional string member is <<>> when undefined and <<str>> otherwise;
\* !x || x.trim() === ''
Blank(member) == member = <<>> \/ member[1] = <<>> \/ Trim(member[1]) = <<>>

\* ExerciseService.validateExercise: the message, or "null"
validateExercise(exercise) ==
    IF Blank(exercise.name) THEN "Name is required"
    ELSE IF Blank(exercise.description) THEN "Description is required"
    ELSE IF exercise.category = <<>> THEN "Category is required"
    ELSE IF ~Truthy(exercise.reps) /\ ~Truthy(exercise.duration)
    THEN "Either reps or duration must be specified"
    ELSE "null"

ValidateExercise ==
    /\ output' = validateExercise(input)
    /\ lastOp' = Op("validateExercise", <<>>, NoError)
    /\ UNCHANGED <<input, now, tzOffset, asyncVars, settingsVars, dbVars, screenVars, stats, completedToday>>

\* Database.resetDatabase: every table is dropped and created again, which
\* also restarts the AUTOINCREMENT sequences
resetDatabase ==
    [exercises |-> <<>>, routines |-> <<>>, routine_seq |-> 0,
     session_logs |-> <<>>, session_seq |-> 0]

\* the rows of tbl and, after them, the default routines
WithSeedRoutines(tbl, seq) ==
    [i \in DOMAIN tbl \cup (seq + 1)..(seq + Len(SeedRoutines)) |->
        IF i \in DOMAIN tbl THEN tbl[i] ELSE SeedRoutines[i - seq]]

\* seedData without the check for an already seeded catalog
seedDataUnchecked(db) ==
    [db EXCEPT !.exercises = SeedExercises,
               !.routines = WithSeedRoutines(db.routines, db.routine_seq),
               !.routine_seq = db.routine_seq + Len(SeedRoutines)]

\* Database.seedData on the tables db: nothing when exercises has rows
seedData(db) ==
    IF DOMAIN db.exercises # {} THEN db
    ELSE [db EXCEPT !.exercises = SeedExercises,
                    !.routines = [i \in DOMAIN db.routines
                                        \cup (db.routine_seq + 1)..(db.routine_seq + Len(SeedRoutines)) |->
                                     IF i \in DOMAIN db.routines THEN db.routines[i]
                                     ELSE SeedRoutines[i - db.routine_seq]],
                    !.routine_seq = db.routine_seq + Len(SeedRoutines)]

\* the number of INSERT statements of one seedData call
SeedInserts == Len(SeedExercises) + Len(SeedRoutines)

\* seedData on an empty catalog when the store rejects its INSERT number
\* k + 1: the statements run one by one outside a transaction, so the rows
\* of the k statements before it stay
seedDataInterrupted(db, k) ==
    LET e == IF k < Len(SeedExercises) THEN k ELSE Len(SeedExercises)
        r == k - e
    IN  [db EXCEPT !.exercises = [i \in 1..e |-> SeedExercises[i]],
                   !.routines = [i \in DOMAIN db.routines
                                       \cup (db.routine_seq + 1)..(db.routine_seq + r) |->
                                    IF i \in DOMAIN db.routines THEN db.routines[i]
                                    ELSE SeedRoutines[i - db.routine_seq]],
                   !.routine_seq = db.routine_seq + r]

\* Database.clearAll: DELETE FROM every table; the AUTOINCREMENT sequences
\* keep counting
clearAll(db) ==
    [db EXCEPT !.exercises = <<>>, !.routines = <<>>, !.session_logs = <<>>]

\* the tables as one value
Tables ==
    [exercises |-> exercises_table, routines |-> routines,
     routine_seq |-> routine_seq, session_logs |-> session_logs,
     session_seq |-> session_seq]

\* a call of Database.seedData(exercisesData) that throws at an INSERT
SeedDataInterrupted(k) ==
    /\ DOMAIN exercises_table = {}
    /\ routine_seq < MaxSeeds * Len(SeedRoutines) + MaxRoutines
    /\ LET db == seedDataInterrupted(Tables, k)
       IN  /\ exercises_table' = db.exercises
           /\ routines' = db.routines
           /\ routine_seq' = db.routine_seq
    /\ lastOp' = OpArgs("seedData", <<>>, <<k>>, StorageFailure)
    /\ UNCHANGED <<callVars, now, tzOffset, asyncVars, settingsVars, session_logs,
                   session_seq, screenVars, stats, completedToday>>

\* a call of Database.seedData(exercisesData); output is the line it logs
SeedData ==
    /\ LET db == seedData(Tables)
       IN  /\ exercises_table' = db.exercises
           /\ routines' = db.routines
           /\ routine_seq' = db.routine_seq
    /\ output' = IF DOMAIN exercises_table # {} THEN "Database already seeded"
                 ELSE "Database seeded successfully"
    /\ lastOp' = Op("seedData", <<>>, NoError)
    /\ UNCHANGED <<input, now, tzOffset, asyncVars, settingsVars, session_logs, session_seq, screenVars,
                   stats, completedToday>>

ClearAll ==
    /\ routine_seq < MaxSeeds * Len(SeedRoutines) + MaxRoutines
    /\ LET db == clearAll(Tables)
       IN  /\ exercises_table' = db.exercises
           /\ routines' = db.routines
           /\ session_logs' = db.session_logs
    /\ lastOp' = Op("clearAll", <<>>, NoError)
    /\ UNCHANGED <<callVars, now, tzOffset, asyncVars, settingsVars, routine_seq, session_seq, screenVars,
                   stats, completedToday>>

\* the app is started again: App.initializeApp
InitializeApp ==
    /\ LET db == seedData(resetDatabase)
       IN  /\ exercises_table' = db.exercises
           /\ routines' = db.routines
           /\ routine_seq' = db.routine_seq
           /\ session_logs' = db.session_logs
           /\ session_seq' = db.session_seq
    /\ exercises' = <<>>
    /\ sessionId' = NoId
    /\ loading' = TRUE
    /\ currentIndex' = 0
    /\ isComplete' = FALSE
    /\ isPaused' = FALSE
    /\ timer' = 0
    /\ intervalRef' = FALSE
    /\ intervals' = 0
    /\ mounted' = FALSE
    /\ lastOp' = Op("initializeApp", <<>>, NoError)
    /\ UNCHANGED <<callVars, now, tzOffset, asyncVars, settingsVars, stats, completedToday>>

\* -------------------------------------------------- SettingsRepository
\* the object literal the field DEFAULT_SETTINGS is initialised with
DefaultSettingsLiteral ==
    [morning_time |-> "07:00", evening_time |-> "17:00",
     notifications_enabled |-> TRUE, snooze_minutes |-> 10,
     disabled_exercises |-> <<>>]

\* a new SettingsRepository over an empty AsyncStorage
NoSettings ==
    /\ storage = <<>>
    /\ DEFAULT_SETTINGS = DefaultSettingsLiteral

\* JSON.stringify of a Settings object: the text, as the members it spells
StringifySettings(settings) == [json |-> settings]

\* JSON.parse of a stored text: a new object
ParseSettings(text) == text.json

\* SettingsRepository.getAll: the object returned, the item afterwards, and
\* whether the object returned is the DEFAULT_SETTINGS object itself
getAll(item, defaults) ==
    IF item = <<>>
    THEN [value |-> defaults, storage |-> <<StringifySettings(defaults)>>,
          isDefaults |-> TRUE]
    ELSE [value |-> ParseSettings(item[1]), storage |-> item, isDefaults |-> FALSE]

\* SettingsRepository.set: settings[key] = value writes to the object that
\* getAll returned, which is DEFAULT_SETTINGS when no item was stored
set(item, defaults, key, value) ==
    LET got == getAll(item, defaults)
        settings == [got.value EXCEPT ![key] = value]
    IN  [storage |-> <<StringifySettings(settings)>>,
         defaults |-> IF got.isDefaults THEN settings ELSE defaults]

\* SettingsRepository.saveAll
saveAll(settings) == <<StringifySettings(settings)>>

\* SettingsRepository.reset
reset(defaults) == saveAll(defaults)

SettingsGetAll ==
    /\ LET got == getAll(storage, DEFAULT_SETTINGS)
       IN  /\ output' = got.value
           /\ storage' = got.storage
    /\ lastOp' = Op("getAll", <<>>, NoError)
    /\ UNCHANGED <<input, DEFAULT_SETTINGS, now, tzOffset, asyncVars, dbVars, screenVars,
                   stats, completedToday>>

SettingsSet(key, value) ==
    /\ LET result == set(storage, DEFAULT_SETTINGS, key, value)
       IN  /\ storage' = result.storage
           /\ DEFAULT_SETTINGS' = result.defaults
    /\ lastOp' = OpArgs("set", <<>>, <<key, value>>, NoError)
    /\ UNCHANGED <<callVars, now, tzOffset, asyncVars, dbVars, screenVars, stats,
                   completedToday>>

SettingsSaveAll(settings) ==
    /\ storage' = saveAll(settings)
    /\ lastOp' = OpArgs("saveAll", <<>>, <<settings>>, NoError)
    /\ UNCHANGED <<callVars, DEFAULT_SETTINGS, now, tzOffset, asyncVars, dbVars, screenVars,
                   stats, completedToday>>

SettingsReset ==
    /\ storage' = reset(DEFAULT_SETTINGS)
    /\ lastOp' = Op("reset", <<>>, NoError)
    /\ UNCHANGED <<callVars, DEFAULT_SETTINGS, now, tzOffset, asyncVars, dbVars, screenVars,
                   stats, completedToday>>

\* App.initializeApp when seedData throws at its INSERT number k + 1: the
\* error screen is shown
InitializeAppInterrupted(k) ==
    /\ LET db == seedDataInterrupted(resetDatabase, k)
       IN  /\ exercises_table' = db.exercises
           /\ routines' = db.routines
           /\ routine_seq' = db.routine_seq
           /\ session_logs' = db.session_logs
           /\ session_seq' = db.session_seq
    /\ exercises' = <<>>
    /\ sessionId' = NoId
    /\ loading' = TRUE
    /\ currentIndex' = 0
    /\ isComplete' = FALSE
    /\ isPaused' = FALSE
    /\ timer' = 0
    /\ intervalRef' = FALSE
    /\ intervals' = 0
    /\ mounted' = FALSE
    /\ lastOp' = OpArgs("initializeApp", <<>>, <<k>>, StorageFailure)
    /\ UNCHANGED <<callVars, now, tzOffset, asyncVars, settingsVars, stats,
                   completedToday>>

\* ------------------------------------------------------ SessionScreen
\* startTimer without the clearInterval of the interval held by the ref
startTimerNoClear(ref, count) ==
    [timer |-> 0, intervalRef |-> TRUE, intervals |-> count + 1]

\* startTimer: the interval of the ref is cleared, the counter is set to 0
\* and a new interval is put into the ref
startTimer(ref, count) ==
    [timer |-> 0, intervalRef |-> TRUE,
     intervals |-> (IF ref THEN count - 1 ELSE count) + 1]

\* stopTimer: the interval of the ref is cleared and the ref set to null
stopTimer(ref, count, elapsed) ==
    [timer |-> elapsed, intervalRef |-> FALSE,
     intervals |-> IF ref THEN count - 1 ELSE count]

\* the cleanup of the first useEffect, run when the screen unmounts: the
\* number of active intervals afterwards
unmountCleanup(ref, count) == IF ref THEN count - 1 ELSE count

\* a SessionScreen is mounted for the routine: the first render returns at
\* `if (loading)`, the second useEffect runs once with currentExercise not
\* yet initialised (undefined where const is compiled to var: stopTimer; a
\* ReferenceError where the temporal dead zone is kept: the screen is torn
\* down), and loadSession runs.  No later render changes currentIndex or
\* isPaused, so the effect does not run again.  A failed load navigates back.
LoadSession(routineId) ==
    LET routineExercises == getRoutineExercises(routines, exercises_table, routineId)
    IN  /\ IF routineExercises.err # NoError
           THEN /\ lastOp' = Op("loadSession", routineId, routineExercises.err)
                /\ exercises' = <<>>
                /\ sessionId' = NoId
                /\ mounted' = FALSE
                /\ UNCHANGED <<session_logs, session_seq>>
           ELSE /\ session_seq < MaxSessions
                /\ LET session == [routineId |-> routineId,
                                   startTime |-> ToISOString(now),
                                   endTime |-> NoTime,
                                   exercises |-> <<>>,
                                   completed |-> FALSE]
                   IN  session_logs' = save(session_logs, session_seq, session)
                /\ session_seq' = session_seq + 1
                /\ exercises' = routineExercises.value
                /\ sessionId' = ToStr(session_seq + 1)
                /\ \E deadZone \in BOOLEAN :
                      mounted' = (~deadZone /\ routineExercises.value # <<>>)
                /\ lastOp' = Op("loadSession", routineId, NoError)
        /\ loading' = FALSE
        /\ currentIndex' = 0
        /\ isComplete' = FALSE
        /\ isPaused' = FALSE
        /\ timer' = 0
        /\ intervalRef' = FALSE
        /\ intervals' = unmountCleanup(intervalRef, intervals)
        /\ UNCHANGED <<callVars, now, tzOffset, asyncVars, settingsVars, exercises_table, routines, routine_seq,
                       stats, completedToday>>

\* exercises[currentIndex]: <<exercise>>, or <<>> for undefined
CurrentExercise(exs, index) ==
    IF index + 1 \in DOMAIN exs THEN <<exs[index + 1]>> ELSE <<>>

\* the second useEffect after a render in which currentIndex or isPaused
\* changed: startTimer (setTimer(0), a new interval) or stopTimer
TimerEffect(exs, index, paused, elapsed, ref, count) ==
    LET currentExercise == CurrentExercise(exs, index)
    IN  IF currentExercise # <<>> /\ currentExercise[1].type = "duration" /\ ~paused
        THEN startTimer(ref, count)
        ELSE stopTimer(ref, count, elapsed)

\* the exercise view (not the spinner, not the summary) is rendered
Showing == mounted /\ ~loading /\ ~isComplete

\* a second passes on a mounted screen: every active interval calls
\* setTimer((prev) => prev + 1) once
IntervalTick ==
    /\ mounted
    /\ intervals > 0
    /\ timer < MaxTimer
    /\ timer' = timer + intervals
    /\ lastOp' = Op("interval", <<>>, NoError)
    /\ UNCHANGED <<callVars, now, tzOffset, asyncVars, settingsVars, dbVars, exercises, sessionId, loading,
                   currentIndex, isComplete, isPaused, intervalRef, intervals, mounted,
                   stats, completedToday>>

\* the screen is left (back, or Back to Home on the summary): the cleanup
\* runs and the ref goes with the component
Unmount ==
    /\ mounted
    /\ mounted' = FALSE
    /\ intervals' = unmountCleanup(intervalRef, intervals)
    /\ intervalRef' = FALSE
    /\ lastOp' = Op("unmount", <<>>, NoError)
    /\ UNCHANGED <<callVars, now, tzOffset, asyncVars, settingsVars, dbVars, exercises, sessionId, loading,
                   currentIndex, isComplete, isPaused, timer,
                   stats, completedToday>>

\* SessionService.markExerciseComplete on the table: the error thrown and
\* the table afterwards
markExerciseComplete(logs, id, exerciseId, reps, duration) ==
    LET found == getById(logs, id)
    IN  IF found = <<>> THEN [err |-> "Session not found", logs |-> logs]
        ELSE LET completion == [exerciseId |-> exerciseId, completed |-> TRUE,
                                reps |-> reps, duration |-> duration]
                 updated == [found[1] EXCEPT
                               !.exercises = Upsert(found[1].exercises, completion)]
             IN  [err |-> NoError, logs |-> update(logs, updated)]

\* SessionService.finishSession without the write to the repository
finishSessionNoUpdate(logs, id, clock) ==
    IF getById(logs, id) = <<>> THEN [err |-> "Session not found", logs |-> logs]
    ELSE [err |-> NoError, logs |-> logs]

\* SessionService.finishSession on the table
finishSession(logs, id, clock) ==
    LET found == getById(logs, id)
    IN  IF found = <<>> THEN [err |-> "Session not found", logs |-> logs]
        ELSE LET updated == [found[1] EXCEPT !.endTime = ToISOString(clock),
                                             !.completed = TRUE]
             IN  [err |-> NoError, logs |-> update(logs, updated)]

\* the index after Skip, when it never stops at the last exercise
SkipIndexUnguarded(index, len) == index + 1

\* handleSkip: the index after Skip
SkipIndex(index, len) == IF index < len - 1 THEN index + 1 ELSE index

HandleComplete ==
    /\ Showing
    /\ LET currentExercise == CurrentExercise(exercises, currentIndex)
       IN  IF sessionId = NoId \/ currentExercise = <<>>
           THEN /\ lastOp' = Op("handleComplete", sessionId, NoError)
                /\ UNCHANGED <<session_logs, currentIndex, isComplete, timer,
                               intervalRef, intervals>>
           ELSE LET marked == markExerciseComplete(session_logs, sessionId,
                                  currentExercise[1].id, NONE, NONE)
                    finished == finishSession(marked.logs, sessionId, now)
                    effect == TimerEffect(exercises, currentIndex + 1, isPaused, 0,
                                          intervalRef, intervals)
                IN  IF marked.err # NoError
                    THEN /\ lastOp' = Op("handleComplete", sessionId, marked.err)
                         /\ UNCHANGED <<session_logs, currentIndex, isComplete,
                                        timer, intervalRef, intervals>>
                    ELSE IF currentIndex < Len(exercises) - 1
                    THEN /\ session_logs' = marked.logs
                         /\ currentIndex' = currentIndex + 1
                         /\ timer' = effect.timer
                         /\ intervalRef' = effect.intervalRef
                         /\ intervals' = effect.intervals
                         /\ lastOp' = Op("handleComplete", sessionId, NoError)
                         /\ UNCHANGED isComplete
                    ELSE IF finished.err # NoError
                    THEN /\ session_logs' = marked.logs
                         /\ lastOp' = Op("handleComplete", sessionId, finished.err)
                         /\ UNCHANGED <<currentIndex, isComplete, timer, intervalRef,
                                        intervals>>
                    ELSE /\ session_logs' = finished.logs
                         /\ isComplete' = TRUE
                         /\ lastOp' = Op("handleComplete", sessionId, NoError)
                         /\ UNCHANGED <<currentIndex, timer, intervalRef, intervals>>
    /\ UNCHANGED <<callVars, now, tzOffset, asyncVars, settingsVars, exercises_table, routines, routine_seq,
                   session_seq, exercises, sessionId, loading, isPaused, mounted,
                   stats, completedToday>>

HandleSkip ==
    /\ Showing
    /\ LET next == SkipIndex(currentIndex, Len(exercises))
           effect == TimerEffect(exercises, next, isPaused, 0, intervalRef, intervals)
       IN  /\ currentIndex' = next
           /\ IF next # currentIndex
              THEN /\ timer' = effect.timer
                   /\ intervalRef' = effect.intervalRef
                   /\ intervals' = effect.intervals
              ELSE UNCHANGED <<timer, intervalRef, intervals>>
    /\ lastOp' = Op("handleSkip", <<>>, NoError)
    /\ UNCHANGED <<callVars, now, tzOffset, asyncVars, settingsVars, dbVars, exercises, sessionId, loading,
                   isComplete, isPaused, mounted, stats, completedToday>>

\* what handleComplete does after its await of markExerciseComplete, which
\* threw err or returned, when the try block swallows the error
AfterMarkIgnoringError(err, last) == IF last THEN "finishSession" ELSE "next"

\* what handleComplete does after its await of markExerciseComplete: last
\* is the test currentIndex < exercises.length - 1 of its closure, negated
AfterMark(err, last) ==
    IF err # NoError THEN "catch"
    ELSE IF last THEN "finishSession"
    ELSE "next"

\* the message of the Alert in the catch block of handleComplete
FailedToSave == "Failed to save progress"

\* Complete is pressed: handleComplete runs up to its first await with the
\* sessionId, currentIndex and currentExercise of the render it belongs to
PressComplete ==
    /\ Showing
    /\ Cardinality(handlers) < MaxPending
    /\ LET currentExercise == CurrentExercise(exercises, currentIndex)
       IN  IF sessionId = NoId \/ currentExercise = <<>>
           THEN UNCHANGED handlers
           ELSE handlers' = handlers \cup
                   {[n |-> FreeSlot(handlers, MaxPending),
                     sessionId |-> sessionId,
                     exerciseId |-> currentExercise[1].id,
                     currentIndex |-> currentIndex,
                     last |-> ~(currentIndex < Len(exercises) - 1),
                     stage |-> "markExerciseComplete"]}
    /\ lastOp' = Op("press Complete", sessionId, NoError)
    /\ UNCHANGED <<callVars, now, tzOffset, settingsVars, inflight, dbVars, screenVars,
                   stats, completedToday>>

\* the screen that runs the handler h is still the one on screen: state
\* updates of an unmounted screen do nothing
OnScreen(h) == mounted /\ sessionId = h.sessionId

\* the await of markExerciseComplete of the handler h settles (fails: the
\* store rejects) and handleComplete runs up to its next await or its end.
\* setCurrentIndex((prev) => prev + 1) counts from the index of the screen,
\* not of the closure; a render with exercises[currentIndex] undefined throws
\* and the screen is torn down
CompleteMarked(h, fails) ==
    /\ h \in handlers
    /\ h.stage = "markExerciseComplete"
    /\ LET marked == markExerciseComplete(session_logs, h.sessionId, h.exerciseId,
                                          NONE, NONE)
           err == IF fails THEN StorageFailure ELSE marked.err
           todo == AfterMark(err, h.last)
           next == currentIndex + 1
           inRange == next < Len(exercises)
           effect == TimerEffect(exercises, next, isPaused, 0, intervalRef, intervals)
       IN  /\ session_logs' = IF fails THEN session_logs ELSE marked.logs
           /\ handlers' = IF todo = "finishSession"
                           THEN (handlers \ {h}) \cup {[h EXCEPT !.stage = "finishSession"]}
                           ELSE handlers \ {h}
           /\ output' = IF todo = "catch" THEN FailedToSave ELSE output
           /\ IF todo = "next" /\ OnScreen(h)
              THEN /\ currentIndex' = next
                   /\ timer' = 0
                   /\ mounted' = inRange
                   /\ intervalRef' = IF inRange THEN effect.intervalRef ELSE FALSE
                   /\ intervals' = IF inRange THEN effect.intervals
                                    ELSE unmountCleanup(intervalRef, intervals)
              ELSE UNCHANGED <<currentIndex, timer, mounted, intervalRef, intervals>>
           /\ lastOp' = OpArgs("handleComplete", h.sessionId, <<h.stage>>, err)
    /\ UNCHANGED <<input, now, tzOffset, settingsVars, inflight, exercises_table,
                   routines, routine_seq, session_seq, exercises, sessionId, loading,
                   isComplete, isPaused, stats, completedToday>>

\* the await of finishSession of the handler h settles and handleComplete
\* runs to its end
CompleteFinished(h, fails) ==
    /\ h \in handlers
    /\ h.stage = "finishSession"
    /\ LET finished == finishSession(session_logs, h.sessionId, now)
           err == IF fails THEN StorageFailure ELSE finished.err
       IN  /\ session_logs' = IF fails THEN session_logs ELSE finished.logs
           /\ output' = IF err # NoError THEN FailedToSave ELSE output
           /\ isComplete' = IF err = NoError /\ OnScreen(h) THEN TRUE ELSE isComplete
           /\ lastOp' = OpArgs("handleComplete", h.sessionId, <<h.stage>>, err)
    /\ handlers' = handlers \ {h}
    /\ UNCHANGED <<input, now, tzOffset, settingsVars, inflight, exercises_table,
                   routines, routine_seq, session_seq, exercises, sessionId, loading,
                   currentIndex, isPaused, timer, intervalRef, intervals, mounted,
                   stats, completedToday>>

\* the Pause / Resume button, rendered for a duration exercise only
HandlePauseResume ==
    /\ Showing
    /\ CurrentExercise(exercises, currentIndex) # <<>>
    /\ CurrentExercise(exercises, currentIndex)[1].type = "duration"
    /\ LET effect == TimerEffect(exercises, currentIndex, ~isPaused, timer,
                                 intervalRef, intervals)
       IN  /\ isPaused' = ~isPaused
           /\ timer' = effect.timer
           /\ intervalRef' = effect.intervalRef
           /\ intervals' = effect.intervals
    /\ lastOp' = Op("handlePauseResume", <<>>, NoError)
    /\ UNCHANGED <<callVars, now, tzOffset, asyncVars, settingsVars, dbVars, exercises, sessionId, loading,
                   currentIndex, isComplete, mounted, stats, completedToday>>

\* ------------------------------------------------------ specification
\* the ids and values the calls are made with
SessionIds == {ToStr(i) : i \in 1..(MaxSessions + 1)}
RoutineIds == {ToStr(i) : i \in 1..(Len(SeedRoutines) + 1)}
ExerciseIds == {ToStr(1), ToStr(2)}
Amounts == {<<10, NONE>>, <<NONE, 30>>}

\* the useState initial values; no SessionScreen is on screen
NoScreen ==
    /\ exercises = <<>>
    /\ sessionId = NoId
    /\ loading = TRUE
    /\ currentIndex = 0
    /\ isComplete = FALSE
    /\ isPaused = FALSE
    /\ timer = 0
    /\ intervalRef = FALSE
    /\ intervals = 0
    /\ mounted = FALSE

\* the app after initialisation: seeded tables, no session, no screen
Fresh ==
    /\ exercises_table = SeedExercises
    /\ routines = SeedRoutines
    /\ routine_seq = Len(SeedRoutines)
    /\ session_logs = <<>>
    /\ session_seq = 0
    /\ NoScreen
    /\ input = <<>>
    /\ output = <<>>
    /\ lastOp = Op("init", <<>>, NoError)
    /\ stats = NoStats
    /\ completedToday = FALSE
    /\ NoSettings
    /\ NoCalls

\* SessionService over the SQLite repository, on a device in UTC
Init ==
    /\ now = TicksPerDay
    /\ tzOffset = 0
    /\ Fresh

\* the calls of SessionService, at one instant of the clock
Next ==
    \/ CreateSession(ToStr(1))
    \/ \E id \in SessionIds, e \in ExerciseIds, a \in Amounts :
          MarkExerciseComplete(id, e, a[1], a[2])
    \/ \E id \in SessionIds : FinishSession(id)
    \/ \E id \in SessionIds : DeleteSession(id)

Spec == Init /\ [][Next]_vars

\* starting guided workouts from the routine list
NextLoad ==
    \/ \E r \in RoutineIds : LoadSession(r)
    \/ \E id \in SessionIds : FinishSession(id)
    \/ \E id \in SessionIds : DeleteSession(id)
    \/ Tick

LoadSpec == Init /\ [][NextLoad]_vars

\* sessions and the queries about them on a device in any time zone
InitZone ==
    /\ now = TicksPerDay
    /\ tzOffset \in (0 - MaxOffset)..MaxOffset
    /\ Fresh

NextZone ==
    \/ CreateSession(ToStr(1))
    \/ \E id \in SessionIds : FinishSession(id)
    \/ GetStatistics
    \/ HasCompletedToday
    \/ Tick

ZoneSpec == InitZone /\ [][NextZone]_vars

\* getStatistics over histories of many sessions and days
DoneRow(day) ==
    [routine_id |-> 1, date_iso |-> day, start_timestamp |-> day * TicksPerDay,
     end_timestamp |-> day * TicksPerDay, exercises_done |-> <<>>, completed |-> 1]

OpenRow(day) ==
    [routine_id |-> 1, date_iso |-> day, start_timestamp |-> day * TicksPerDay,
     end_timestamp |-> NONE, exercises_done |-> <<>>, completed |-> 0]

\* the table after one finished session on each UTC day of D, then dup more
\* finished sessions on the last of these days, then open unfinished sessions
History(D, dup, open) ==
    LET days == SortDesc(D)
        n == Len(days)
    IN  [i \in 1..(n + dup + open) |->
            IF i <= n THEN DoneRow(days[n + 1 - i])
            ELSE IF i <= n + dup THEN DoneRow(days[1])
            ELSE OpenRow(MaxDay)]

InitStat ==
    /\ \E D \in SUBSET (1..MaxDay), dup \in 0..MaxDup, open \in 0..MaxOpen :
          /\ \/ dup <= 1 /\ open <= 1
             \/ D = {MaxDay}
          /\ D = {} => dup = 0
          /\ session_logs = History(D, dup, open)
          /\ session_seq = Cardinality(D) + dup + open
          /\ \/ dup <= 1 /\ open <= 1 /\ tzOffset \in (0 - MaxOffset)..MaxOffset
                /\ now \in (MaxDay * TicksPerDay)..(MaxDay * TicksPerDay + TicksPerDay - 1)
             \/ (dup > 1 \/ open > 1) /\ tzOffset = 0 /\ now = MaxDay * TicksPerDay
    /\ exercises_table = SeedExercises
    /\ routines = SeedRoutines
    /\ routine_seq = Len(SeedRoutines)
    /\ NoScreen
    /\ input = <<>>
    /\ output = <<>>
    /\ lastOp = Op("init", <<>>, NoError)
    /\ stats = NoStats
    /\ completedToday = FALSE
    /\ NoSettings
    /\ NoCalls

NextStat ==
    \/ GetStatistics
    \/ HasCompletedToday

StatSpec == InitStat /\ [][NextStat]_vars

\* exercise rows of every shape: reps only, duration only, both
ShapeCatalog ==
    <<[repetitions |-> 10, duration_seconds |-> NONE, sets |-> 3, rest_seconds |-> 30],
      [repetitions |-> NONE, duration_seconds |-> 30, sets |-> 2, rest_seconds |-> 15],
      [repetitions |-> NONE, duration_seconds |-> 60, sets |-> NONE, rest_seconds |-> NONE],
      [repetitions |-> 17, duration_seconds |-> NONE, sets |-> 1, rest_seconds |-> 60],
      [repetitions |-> 10, duration_seconds |-> 50, sets |-> 2, rest_seconds |-> NONE],
      [repetitions |-> NONE, duration_seconds |-> 20, sets |-> 4, rest_seconds |-> 10]>>

\* the sequences over S of length 0..n
SeqUpTo(S, n) == UNION {[1..k -> S] : k \in 0..n}

\* the duration estimate of any list of catalog exercises, given directly
\* and as the exercises of routine 1
InitDuration ==
    /\ now = TicksPerDay
    /\ tzOffset = 0
    /\ exercises_table = ShapeCatalog
    /\ \E order \in SeqUpTo(DOMAIN ShapeCatalog, MaxList) :
          /\ routines = <<[title |-> "Custom Routine", type |-> "custom",
                           exercise_order |-> order]>>
          /\ input = [i \in DOMAIN order |-> ExerciseFromDb(order[i], ShapeCatalog[order[i]])]
    /\ routine_seq = 1
    /\ session_logs = <<>>
    /\ session_seq = 0
    /\ NoScreen
    /\ output = <<>>
    /\ lastOp = Op("init", <<>>, NoError)
    /\ stats = NoStats
    /\ completedToday = FALSE
    /\ NoSettings
    /\ NoCalls

NextDuration ==
    \/ CalculateTotalDuration
    \/ \E r \in {ToStr(1), ToStr(2)} : CalculateRoutineDuration(r)

DurationSpec == InitDuration /\ [][NextDuration]_vars

\* the titles and exercise id lists createRoutine is called with
TitleInputs == {<<>>, <<" ", " ">>, <<"A", " ">>}

OrderInputs ==
    {<<>>, <<ToStr(1)>>, <<ToStr(1), ToStr(2), ToStr(3)>>, <<ToStr(3), ToStr(1)>>,
     <<ToStr(1), ToStr(9), ToStr(2)>>, <<ToStr(9), ToStr(8)>>}

\* the routine ids and the exercise ids routines are addressed with
RoutineInputs == {ToStr(i) : i \in 1..(Len(SeedRoutines) + MaxRoutines + 1)}
DeletableExercises == {ToStr(1), ToStr(2), ToStr(3)}

\* routines over a catalog that loses exercises
InitRoutine ==
    /\ now = TicksPerDay
    /\ tzOffset = 0
    /\ exercises_table = ShapeCatalog
    /\ routines = SeedRoutines
    /\ routine_seq = Len(SeedRoutines)
    /\ session_logs = <<>>
    /\ session_seq = 0
    /\ NoScreen
    /\ input = <<>>
    /\ output = <<>>
    /\ lastOp = Op("init", <<>>, NoError)
    /\ stats = NoStats
    /\ completedToday = FALSE
    /\ NoSettings
    /\ NoCalls

NextRoutine ==
    \/ \E title \in TitleInputs, order \in OrderInputs : CreateRoutine(title, order)
    \/ \E r \in RoutineInputs : DeleteRoutine(r)
    \/ \E e \in DeletableExercises : DeleteExercise(e)
    \/ \E r \in RoutineInputs : GetRoutineExercises(r)

RoutineSpec == InitRoutine /\ [][NextRoutine]_vars

\* routines created, edited and deleted over a catalog that stays as it is
NextEdit ==
    \/ \E title \in TitleInputs, order \in OrderInputs : CreateRoutine(title, order)
    \/ \E r \in RoutineInputs, order \in OrderInputs : UpdateRoutineExercises(r, order)
    \/ \E r \in RoutineInputs : DeleteRoutine(r)

EditSpec == InitRoutine /\ [][NextEdit]_vars

\* the members a definition passed to validateExercise may have
TextInputs == {<<>>, << <<>> >>, << <<" ", " ">> >>, << <<"A", " ">> >>}

PartialExercises ==
    [name : TextInputs, description : TextInputs,
     category : {<<>>, <<"stretching">>},
     reps : {NONE, 10}, duration : {NONE, 30}]

InitValidate ==
    /\ now = TicksPerDay
    /\ tzOffset = 0
    /\ exercises_table = SeedExercises
    /\ routines = SeedRoutines
    /\ routine_seq = Len(SeedRoutines)
    /\ session_logs = <<>>
    /\ session_seq = 0
    /\ NoScreen
    /\ input \in PartialExercises
    /\ output = <<>>
    /\ lastOp = Op("init", <<>>, NoError)
    /\ stats = NoStats
    /\ completedToday = FALSE
    /\ NoSettings
    /\ NoCalls

NextValidate == ValidateExercise

ValidateSpec == InitValidate /\ [][NextValidate]_vars

\* the tables after Database.initializeTables on a new database file
InitSeed ==
    /\ now = TicksPerDay
    /\ tzOffset = 0
    /\ exercises_table = <<>>
    /\ routines = <<>>
    /\ routine_seq = 0
    /\ session_logs = <<>>
    /\ session_seq = 0
    /\ NoScreen
    /\ input = <<>>
    /\ output = <<>>
    /\ lastOp = Op("init", <<>>, NoError)
    /\ stats = NoStats
    /\ completedToday = FALSE
    /\ NoSettings
    /\ NoCalls

\* seeding, the routine calls and the clearing of the tables
NextSeed ==
    \/ SeedData
    \/ ClearAll
    \/ \E title \in TitleInputs, order \in OrderInputs : CreateRoutine(title, order)
    \/ \E r \in RoutineInputs : DeleteRoutine(r)

SeedSpec == InitSeed /\ [][NextSeed]_vars

\* the start instants and the elapsed milliseconds of the sessions measured
StartInputs == {0, MsPerDay - 1, MsPerDay + 43200000}

ElapsedInputs ==
    {0, 1, 29999, 30000, 30001, 59999, 60000, 60001, 89999, 90000, 90001,
     149999, 150000, 299999, 300000, 300001, 329999, 330000, MsPerDay}

SessionInputs ==
    {[id |-> ToStr(1), routineId |-> ToStr(1), startTime |-> IsoOfMs(st),
      endTime |-> IsoOfMs(st + el), exercises |-> <<>>, completed |-> TRUE] :
        st \in StartInputs, el \in ElapsedInputs}
    \cup {[id |-> ToStr(1), routineId |-> ToStr(1), startTime |-> IsoOfMs(st),
           endTime |-> NoTime, exercises |-> <<>>, completed |-> FALSE] :
             st \in StartInputs}

InitSessionDuration ==
    /\ now = TicksPerDay
    /\ tzOffset = 0
    /\ exercises_table = SeedExercises
    /\ routines = SeedRoutines
    /\ routine_seq = Len(SeedRoutines)
    /\ session_logs = <<>>
    /\ session_seq = 0
    /\ NoScreen
    /\ NoSettings
    /\ NoCalls
    /\ input \in SessionInputs
    /\ output = <<>>
    /\ lastOp = Op("init", <<>>, NoError)
    /\ stats = NoStats
    /\ completedToday = FALSE

NextSessionDuration == CalculateSessionDuration

SessionDurationSpec == InitSessionDuration /\ [][NextSessionDuration]_vars

\* SessionService calls that overlap
NextRace ==
    \/ CreateSession(ToStr(1))
    \/ \E id \in SessionIds, e \in ExerciseIds :
          BeginMarkExerciseComplete(id, e, NONE, NONE)
    \/ \E id \in SessionIds : BeginFinishSession(id)
    \/ \E call \in inflight : ReturnFromUpdate(call)

RaceSpec == Init /\ [][NextRace]_vars

\* one history read through both repositories
NextMock ==
    \/ CreateSession(ToStr(1))
    \/ \E id \in SessionIds : FinishSession(id)
    \/ \E id \in SessionIds : DeleteSession(id)
    \/ GetStatistics
    \/ MockGetStatistics
    \/ Tick

MockSpec == Init /\ [][NextMock]_vars

\* the values settings are written with
SettingInputs ==
    {<<"morning_time", "06:30">>, <<"morning_time", "07:00">>,
     <<"snooze_minutes", 15>>, <<"snooze_minutes", 10>>,
     <<"notifications_enabled", FALSE>>, <<"notifications_enabled", TRUE>>}

SettingsInputs ==
    [morning_time : {"07:00", "06:30"}, evening_time : {"17:00"},
     notifications_enabled : BOOLEAN, snooze_minutes : {10, 15},
     disabled_exercises : {<<>>}]

\* the calls of one SettingsRepository
NextSettings ==
    \/ SettingsGetAll
    \/ \E kv \in SettingInputs : SettingsSet(kv[1], kv[2])
    \/ \E settings \in SettingsInputs : SettingsSaveAll(settings)
    \/ SettingsReset

SettingsSpec == Init /\ [][NextSettings]_vars

\* seeding on a store that may reject a statement
NextSeedFailure ==
    \/ SeedData
    \/ \E k \in 0..(SeedInserts - 1) : SeedDataInterrupted(k)
    \/ InitializeApp
    \/ \E k \in 0..(SeedInserts - 1) : InitializeAppInterrupted(k)
    \/ ClearAll
    \/ \E title \in TitleInputs, order \in OrderInputs : CreateRoutine(title, order)

SeedFailureSpec == InitSeed /\ [][NextSeedFailure]_vars

\* sessions across restarts of the app
NextRestart ==
    \/ CreateSession(ToStr(1))
    \/ \E id \in SessionIds, e \in ExerciseIds, a \in Amounts :
          MarkExerciseComplete(id, e, a[1], a[2])
    \/ \E id \in SessionIds : FinishSession(id)
    \/ InitializeApp
    \/ GetStatistics
    \/ Tick

RestartSpec == Init /\ [][NextRestart]_vars

\* a guided workout whose Complete presses overlap and whose store may fail
NextPress ==
    \/ \E r \in RoutineIds : LoadSession(r)
    \/ PressComplete
    \/ \E h \in handlers, fails \in BOOLEAN : CompleteMarked(h, fails)
    \/ \E h \in handlers, fails \in BOOLEAN : CompleteFinished(h, fails)
    \/ HandleSkip

PressSpec == Init /\ [][NextPress]_vars

\* a guided workout in SessionScreen that may be left at any time
NextTimer ==
    \/ \E r \in RoutineIds : LoadSession(r)
    \/ HandleComplete
    \/ HandleSkip
    \/ HandlePauseResume
    \/ IntervalTick
    \/ Unmount

TimerSpec == Init /\ [][NextTimer]_vars

\* a guided workout in SessionScreen
NextScreen ==
    \/ \E r \in RoutineIds : LoadSession(r)
    \/ HandleComplete
    \/ HandleSkip
    \/ HandlePauseResume
    \/ IntervalTick
    \/ Tick

ScreenSpec == Init /\ [][NextScreen]_vars

\* ================================================================ claims
\* what the claims speak about
Today == FormatLocalDate(now, tzOffset)

Stored == DOMAIN session_logs

Completed == {i \in Stored : session_logs[i].completed = 1}

\* the distinct calendar dates of the completed sessions
CompletedDates == {session_logs[i].date_iso : i \in Completed}

Newest(D) == CHOOSE d \in D : \A x \in D : x <= d

\* the length of the run of consecutive days of D that ends at d
RunEndingAt(D, d) ==
    CHOOSE k \in 1..Cardinality(D) :
        /\ \A j \in 0..(k - 1) : d - j \in D
        /\ d - k \notin D

\* the stats variable holds the answer for the current table and clock
StatsFresh == lastOp.op = "getStatistics"

\* round-half-up of 100 * c / t
RoundedPercent(c, t) == (200 * c + t) \div (2 * t)

\* C5: getStatistics reports totalSessions as the number of all stored
\* sessions and completionRate as round(100 * completed / total), 0 for an
\* empty history.
C5_RateIsRoundedPercent ==
    StatsFresh =>
        /\ stats.totalSessions = Cardinality(Stored)
        /\ stats.completionRate =
              IF Cardinality(Stored) = 0 THEN 0
              ELSE RoundedPercent(Cardinality(Completed), Cardinality(Stored))

\* C6: currentStreak is 0 when there is no completed date or the newest one
\* is neither today nor yesterday, and otherwise the length of the run of
\* consecutive days ending at the newest completed date; lastSessionDate is
\* the newest completed date.
C6_CurrentStreak ==
    StatsFresh =>
        /\ stats.currentStreak =
              IF CompletedDates = {} \/ Newest(CompletedDates) \notin {Today, Today - 1}
              THEN 0
              ELSE RunEndingAt(CompletedDates, Newest(CompletedDates))
        /\ stats.lastSessionDate =
              IF CompletedDates = {} THEN NONE ELSE Newest(CompletedDates)
        /\ CompletedDates = {Today, Today - 1, Today - 2, Today - 4} =>
              stats.currentStreak = 3 /\ stats.lastSessionDate = Today

C6_Witness ==
    /\ StatsFresh
    /\ CompletedDates = {Today, Today - 1, Today - 2, Today - 4}
    /\ Cardinality(Completed) > Cardinality(CompletedDates)
    /\ stats.currentStreak = 3

\* C7: longestStreak is the length of the longest run of consecutive days
\* among the completed dates, whatever today is: 0 without a completed
\* session and at least 1 with one.
C7_LongestStreak ==
    StatsFresh =>
        stats.longestStreak =
            IF CompletedDates = {} THEN 0
            ELSE LET runs == {RunEndingAt(CompletedDates, d) : d \in CompletedDates}
                 IN  CHOOSE k \in runs : \A x \in runs : x <= k

\* C8: the Statistics returned by getStatistics satisfy
\* longestStreak >= currentStreak.
C8_LongestAtLeastCurrent ==
    StatsFresh => stats.longestStreak >= stats.currentStreak

C8_Witness ==
    /\ StatsFresh
    /\ stats.currentStreak >= 1
    /\ Cardinality(CompletedDates) > stats.longestStreak
    /\ stats.longestStreak > stats.currentStreak

\* the completion records of stored session k, as the repository returns them
Records(logs, k) == mapFromDb(k, logs[k]).exercises

\* the positions of the records of session k that are about exercise e
Positions(logs, k, e) ==
    {i \in 1..Len(Records(logs, k)) : Records(logs, k)[i].exerciseId = e}

\* the last call was markExerciseComplete on stored session k and succeeded
MarkedOk(op, k) ==
    op.op = "markExerciseComplete" /\ op.err = NoError /\ op.id = ToStr(k)

\* C1: every stored session holds at most one completion record per exercise
\* id; markExerciseComplete for an id already present replaces that record in
\* place and keeps the length, for an id not present it appends one record.
C1_UpsertKeepsOneRecordPerExercise ==
    /\ [](\A k \in Stored : \A e \in ExerciseIds :
            Cardinality(Positions(session_logs, k, e)) <= 1)
    /\ [][\A k \in Stored :
            MarkedOk(lastOp', k) =>
                LET old == Records(session_logs, k)
                    new == Records(session_logs', k)
                    rec == [exerciseId |-> lastOp'.args[1], completed |-> TRUE,
                            reps |-> lastOp'.args[2], duration |-> lastOp'.args[3]]
                    pos == Positions(session_logs, k, lastOp'.args[1])
                IN  IF pos # {}
                    THEN /\ Len(new) = Len(old)
                         /\ \A i \in 1..Len(old) :
                               new[i] = IF i \in pos THEN rec ELSE old[i]
                    ELSE new = Append(old, rec)]_vars

\* a record that is not the last one has just been rewritten
C1_Witness ==
    \E k \in Stored :
        /\ MarkedOk(lastOp, k)
        /\ Len(Records(session_logs, k)) = 2
        /\ Records(session_logs, k)[1].exerciseId = lastOp.args[1]
        /\ Records(session_logs, k)[1].duration = 30
        /\ Records(session_logs, k)[2].reps = 10

\* C2: markExerciseComplete and finishSession with a session id that is not
\* in the store fail with 'Session not found' and leave the store unchanged.
C2_UnknownSessionFails ==
    [][(/\ lastOp'.op \in {"markExerciseComplete", "finishSession"}
        /\ \A k \in Stored : lastOp'.id # ToStr(k))
          => /\ lastOp'.err = "Session not found"
             /\ session_logs' = session_logs
             /\ session_seq' = session_seq]_vars

C2_Witness ==
    /\ lastOp.op = "finishSession"
    /\ lastOp.err = "Session not found"
    /\ \E k \in Stored : Len(Records(session_logs, k)) > 0

\* C3: a session with completed = true has an end timestamp; a session is
\* created with completed = false and no end timestamp and stays so until
\* finishSession is applied to it.
C3_CompletedHasEnd ==
    /\ [](\A k \in Stored :
            session_logs[k].completed = 1 => session_logs[k].end_timestamp # NONE)
    /\ [][\A k \in DOMAIN session_logs' :
            LET unfinished(row) == row.completed = 0 /\ row.end_timestamp = NONE
            IN  /\ k \notin Stored => unfinished(session_logs'[k])
                /\ (k \in Stored /\ unfinished(session_logs[k])
                           /\ ~unfinished(session_logs'[k]))
                      => lastOp' = Op("finishSession", ToStr(k), NoError)]_vars

C3_Witness ==
    \E k \in Stored :
        /\ session_logs[k].completed = 1
        /\ session_logs[k].end_timestamp = now
        /\ Len(session_logs[k].exercises_done) = 2
        /\ lastOp = Op("finishSession", ToStr(k), NoError)

\* C4: once finishSession has succeeded for a session, no later call changes
\* its completion records, its end timestamp or its completed flag.
C4_FinishedIsImmutable ==
    [][\A k \in Stored :
          (session_logs[k].completed = 1 /\ k \in DOMAIN session_logs')
             => session_logs'[k] = session_logs[k]]_vars

\* the local calendar day of a session's start
LocalStartDay(row) == FormatLocalDate(row.start_timestamp, tzOffset)

\* C9: the calendar date of a session is the local day of its start:
\* hasCompletedToday is true iff a session started today (local) is
\* completed, and such a session makes currentStreak >= 1.
C9_LocalCalendarDay ==
    LET doneToday == \E k \in Completed : LocalStartDay(session_logs[k]) = Today
    IN  /\ lastOp.op = "hasCompletedToday" => (completedToday <=> doneToday)
        /\ (StatsFresh /\ doneToday) => stats.currentStreak >= 1

\* C10: starting a workout for an unknown routine fails with 'Routine not
\* found' and creates no session; a successful start stores exactly one new
\* session with start = now, no completions, completed = false, no end
\* timestamp, and the screen holds its id.
C10_StartCreatesOneSession ==
    [][lastOp'.op = "loadSession" =>
          IF \A r \in DOMAIN routines : lastOp'.id # ToStr(r)
          THEN /\ lastOp'.err = "Routine not found"
               /\ session_logs' = session_logs
               /\ sessionId' = NoId
          ELSE /\ lastOp'.err = NoError
               /\ \E k \in DOMAIN session_logs' \ Stored :
                     /\ DOMAIN session_logs' = Stored \cup {k}
                     /\ \A j \in Stored : session_logs'[j] = session_logs[j]
                     /\ session_logs'[k].start_timestamp = now
                     /\ session_logs'[k].end_timestamp = NONE
                     /\ session_logs'[k].completed = 0
                     /\ session_logs'[k].exercises_done = <<>>
                     /\ sessionId' = ToStr(k)]_vars

C10_Witness ==
    /\ lastOp.op = "loadSession"
    /\ lastOp.err = "Routine not found"
    /\ sessionId = NoId
    /\ Stored # {}

\* the exercise the guided workout is showing
Shown == CurrentExercise(exercises, currentIndex)[1]

\* the stored row of the session the screen holds
ScreenRow(logs) == logs[ParseInt(sessionId)]

\* C11: whenever the workout shows a duration exercise and is not paused,
\* the first exercise right after loading included, a tick source is
\* active; when the exercise is rep-based or the workout is paused, none is.
C11_TickSourceWhileTiming ==
    (Showing /\ CurrentExercise(exercises, currentIndex) # <<>>) =>
        (intervalRef <=> (Shown.type = "duration" /\ ~isPaused))

\* C12: the elapsed-time counter returns to zero only when the workout
\* switches to another exercise (or a new screen is opened); Pause and
\* Resume leave its value as it is.
C12_OnlySwitchResetsTimer ==
    [][/\ (timer # 0 /\ timer' = 0) =>
             (currentIndex' # currentIndex \/ lastOp'.op = "loadSession")
       /\ lastOp'.op = "handlePauseResume" => timer' = timer]_vars

\* C13: Skip moves to the next exercise and leaves the stored sessions as
\* they are; on the last exercise it changes neither the index nor a session.
C13_SkipRecordsNothing ==
    [][lastOp'.op = "handleSkip" =>
          /\ session_logs' = session_logs
          /\ currentIndex' = IF currentIndex < Len(exercises) - 1
                             THEN currentIndex + 1 ELSE currentIndex
          /\ isComplete' = isComplete]_vars

C13_Witness ==
    /\ lastOp.op = "handleSkip"
    /\ Showing
    /\ currentIndex = Len(exercises) - 1
    /\ ScreenRow(session_logs).exercises_done = <<>>
    /\ ScreenRow(session_logs).completed = 0

WorkSeconds(exercise) ==
    IF exercise.type = "duration" THEN exercise.duration ELSE exercise.reps * 3

RECURSIVE SumWork(_)
SumWork(exs) == IF exs = <<>> THEN 0 ELSE WorkSeconds(Head(exs)) + SumWork(Tail(exs))

\* the least number of whole minutes that hold the seconds
MinutesUp(seconds) == CHOOSE m \in 0..seconds : 60 * m >= seconds /\ 60 * (m - 1) < seconds

\* C15: the duration estimate is ceil(S / 60) minutes, S being the work
\* seconds of the exercises plus 10 * (count - 1) seconds of rest for two or
\* more exercises and no rest otherwise, whatever sets and rest between sets
\* are: 30 s + 60 s gives 2, ten reps alone give 1, an empty list gives 0.
C15_DurationEstimate ==
    lastOp \in {Op("calculateTotalDuration", <<>>, NoError),
                Op("calculateRoutineDuration", ToStr(1), NoError)} =>
        LET count == Len(input)
            rest == IF count >= 2 THEN 10 * (count - 1) ELSE 0
        IN  /\ output = MinutesUp(SumWork(input) + rest)
            /\ input = <<>> => output = 0
            /\ (count = 1 /\ input[1].reps = 10 /\ input[1].type = "reps") => output = 1
            /\ (count = 2 /\ input[1].duration = 30 /\ input[2].duration = 60)
                  => output = 2

\* 30 s + 20 s + 10 s of rest are one minute exactly
C15_Witness ==
    /\ lastOp.op = "calculateTotalDuration"
    /\ Len(input) = 2
    /\ input[1].duration = 30 /\ input[1].sets = 2
    /\ input[2].duration = 20 /\ input[2].sets = 4
    /\ output = 1

\* the exercise ids of a routine row that are still in the catalog, in order
PresentIds(row) ==
    LET InCatalog(e) == e \in DOMAIN exercises_table
    IN  SelectSeq(row.exercise_order, InCatalog)

\* C16: getRoutineExercises fails with 'Routine not found' for an unknown
\* routine id; for a known routine it returns the catalog entries of the
\* routine's ids in the routine's order without the ids that left the
\* catalog, and does not fail ([A, deletedB, C] gives [A, C]).
C16_MissingExercisesSkipped ==
    lastOp.op = "getRoutineExercises" =>
        IF ParseInt(lastOp.id) \notin DOMAIN routines
        THEN lastOp.err = "Routine not found"
        ELSE LET present == PresentIds(routines[ParseInt(lastOp.id)])
             IN  /\ lastOp.err = NoError
                 /\ Len(output) = Len(present)
                 /\ \A i \in 1..Len(present) :
                       /\ output[i].id = ToStr(present[i])
                       /\ output[i] = ExerciseFromDb(present[i],
                                                     exercises_table[present[i]])

C16_Witness ==
    /\ lastOp.op = "getRoutineExercises"
    /\ ParseInt(lastOp.id) \in DOMAIN routines
    /\ routines[ParseInt(lastOp.id)].exercise_order = <<1, 2, 3>>
    /\ DOMAIN exercises_table \cap {1, 2, 3} = {1, 3}
    /\ Len(output) = 2
    /\ output[1].id = ToStr(1)
    /\ output[2].id = ToStr(3)

\* C17: createRoutine fails on the first violated check and stores nothing:
\* a blank title, then an empty id list, then the first id in list order
\* that is not in the catalog, which the error names; when all checks pass
\* it stores exactly one new routine of kind custom with the ids in order.
C17_CreateRoutineChecks ==
    [][lastOp'.op = "createRoutine" =>
          LET title == lastOp'.args[1]
              ids == lastOp'.args[2]
              unknown == {i \in 1..Len(ids) : ParseInt(ids[i]) \notin DOMAIN exercises_table}
          IN  IF \A i \in 1..Len(title) : title[i] \in WhiteSpace
              THEN lastOp'.err = "Routine title is required" /\ routines' = routines
              ELSE IF ids = <<>>
              THEN /\ lastOp'.err = "Routine must contain at least one exercise"
                   /\ routines' = routines
              ELSE IF unknown # {}
              THEN /\ lastOp'.err = "Exercise with ID not found"
                   /\ \E i \in unknown : /\ \A j \in unknown : i <= j
                                         /\ output' = ids[i]
                   /\ routines' = routines
              ELSE /\ lastOp'.err = NoError
                   /\ \E k \in DOMAIN routines' \ DOMAIN routines :
                         /\ DOMAIN routines' = DOMAIN routines \cup {k}
                         /\ \A j \in DOMAIN routines : routines'[j] = routines[j]
                         /\ routines'[k].type = "custom"
                         /\ routines'[k].title = title
                         /\ routines'[k].exercise_order =
                               [i \in 1..Len(ids) |-> ParseInt(ids[i])]]_vars

\* a blank title is reported although the ids are unknown too
C17_Witness ==
    /\ lastOp.op = "createRoutine"
    /\ lastOp.err = "Routine title is required"
    /\ lastOp.args[1] = <<" ", " ">>
    /\ lastOp.args[2] = <<ToStr(9), ToStr(8)>>
    /\ routines = SeedRoutines

\* C18: deleteRoutine fails with 'Routine not found' for an unknown id and
\* with 'Cannot delete default routines' for a morning or evening routine,
\* changing nothing, and removes a custom routine; the seeded morning and
\* evening routines are present after any calls of createRoutine and
\* deleteRoutine.
C18_DefaultRoutinesStay ==
    /\ [](\A i \in 1..Len(SeedRoutines) :
             i \in DOMAIN routines /\ routines[i] = SeedRoutines[i])
    /\ [][lastOp'.op = "deleteRoutine" =>
             LET id == ParseInt(lastOp'.id)
             IN  IF id \notin DOMAIN routines
                 THEN lastOp'.err = "Routine not found" /\ routines' = routines
                 ELSE IF routines[id].type \in {"morning", "evening"}
                 THEN /\ lastOp'.err = "Cannot delete default routines"
                      /\ routines' = routines
                 ELSE /\ lastOp'.err = NoError
                      /\ DOMAIN routines' = DOMAIN routines \ {id}
                      /\ \A j \in DOMAIN routines' : routines'[j] = routines[j]]_vars

C18_Witness ==
    /\ lastOp.op = "deleteRoutine"
    /\ lastOp.err = "Cannot delete default routines"
    /\ routine_seq > Len(SeedRoutines)
    /\ DOMAIN routines = 1..Len(SeedRoutines)

\* a text member is given and has a character that is not white space
HasText(member) ==
    member # <<>> /\ \E i \in 1..Len(member[1]) : member[1][i] \notin WhiteSpace

\* C19: validateExercise returns the error of the first failing check, in
\* the order name, description, category, exactly one of reps and duration;
\* a definition with neither and a definition with both fail the fourth
\* check; a definition passing all four is valid (null).
C19_ValidateExerciseOrder ==
    lastOp.op = "validateExercise" =>
        output = IF ~HasText(input.name) THEN "Name is required"
                 ELSE IF ~HasText(input.description) THEN "Description is required"
                 ELSE IF input.category = <<>> THEN "Category is required"
                 ELSE IF (input.reps # NONE) = (input.duration # NONE)
                 THEN "Either reps or duration must be specified"
                 ELSE "null"

\* C20: starting the app again removes no session log: every stored session
\* log is in the history, unchanged, after app initialisation.
C20_RestartKeepsHistory ==
    [][lastOp'.op = "initializeApp" =>
          \A k \in Stored :
             k \in DOMAIN session_logs' /\ session_logs'[k] = session_logs[k]]_vars

\* the ids of the stored routines of the given type
OfType(type) == {i \in DOMAIN routines : routines[i].type = type}

\* the exercise ids a stored routine lists
Listed(i) == {routines[i].exercise_order[k] : k \in DOMAIN routines[i].exercise_order}

\* C21: seedData on a catalog that has entries inserts no exercise and no
\* routine, and whenever the catalog is seeded there is exactly one morning
\* and exactly one evening routine, and their exercise id lists are disjoint.
C21_SeedingIsIdempotent ==
    /\ [](DOMAIN exercises_table # {} =>
            /\ Cardinality(OfType("morning")) = 1
            /\ Cardinality(OfType("evening")) = 1
            /\ \A m \in OfType("morning"), e \in OfType("evening") :
                  Listed(m) \cap Listed(e) = {})
    /\ [][lastOp'.op = "seedData" /\ DOMAIN exercises_table # {} =>
             exercises_table' = exercises_table /\ routines' = routines]_vars

\* seedData has been called on a seeded catalog that also has a custom routine
C21_Witness ==
    /\ lastOp.op = "seedData"
    /\ output = "Database already seeded"
    /\ OfType("custom") # {}
    /\ OfType("morning") # {}

\* C22: the first getAll on empty storage creates and returns the defaults,
\* and a getAll that follows reset() returns the original defaults (morning
\* 07:00, evening 17:00, notifications on, snooze 10, nothing disabled),
\* whatever calls were made on the repository before.
C22_ResetRestoresDefaults ==
    /\ [][lastOp'.op = "getAll" /\ lastOp.op = "reset" =>
             output' = DefaultSettingsLiteral]_vars
    /\ [][lastOp'.op = "getAll" /\ storage = <<>> =>
             /\ output' = DefaultSettingsLiteral
             /\ storage' = <<StringifySettings(DefaultSettingsLiteral)>>]_vars

\* the milliseconds between the start and the end of the session measured
Elapsed == DateMs(input.endTime) - DateMs(input.startTime)

\* C23: calculateSessionDuration is 0 for a session without an end
\* timestamp and otherwise the elapsed minutes rounded to the nearest
\* integer (not up): 5 minutes give 5, less than 30 seconds give 0.
C23_SessionDurationRounds ==
    lastOp.op = "calculateSessionDuration" =>
        IF input.endTime = NoTime THEN output = 0
        ELSE /\ 60000 * output - Elapsed <= 30000
             /\ Elapsed - 60000 * output <= 30000
             /\ (Elapsed = 300000 => output = 5)
             /\ (Elapsed < 30000 => output = 0)

\* a session of a minute and a second has been measured as one minute
C23_Witness ==
    /\ lastOp.op = "calculateSessionDuration"
    /\ input.endTime # NoTime
    /\ Elapsed = 60001
    /\ output = 1

\* C24: at most one interval of the workout timer is active at any time, a
\* second that passes increments the counter once, and no interval is
\* active after the screen has unmounted.
C24_OneTickSource ==
    /\ [](intervals <= 1)
    /\ [](~mounted => intervals = 0)
    /\ [][lastOp'.op = "interval" => timer' = timer + 1]_vars

\* Complete has moved the workout from one timed exercise to the next while
\* it was running: the new interval is the only one
C24_Witness ==
    /\ Showing
    /\ lastOp.op = "handleComplete"
    /\ currentIndex >= 1
    /\ exercises[currentIndex].type = "duration"
    /\ Shown.type = "duration"
    /\ ~isPaused
    /\ intervalRef
    /\ intervals = 1

\* C25: for the same stored session history the MockSessionRepository
\* returns the statistics the SQLite SessionRepository returns: the same
\* totalSessions, currentStreak, longestStreak, completionRate and
\* lastSessionDate.
C25_MockMatchesSqlite ==
    lastOp.op = "MockSessionRepository.getStatistics" =>
        stats = getStatistics(session_logs, now, tzOffset)

\* C27: no session update is lost when calls overlap: when a
\* markExerciseComplete returns, a session that was finished is still
\* completed with its end timestamp, and every completion record that was
\* stored is still stored.
C27_NoLostUpdate ==
    [][lastOp'.op = "markExerciseComplete" /\ lastOp'.err = NoError =>
          \A k \in Stored :
             /\ k \in DOMAIN session_logs'
             /\ session_logs[k].completed = 1 =>
                   /\ session_logs'[k].completed = 1
                   /\ session_logs'[k].end_timestamp = session_logs[k].end_timestamp
             /\ \A e \in ExerciseIds :
                   Positions(session_logs, k, e) # {} =>
                       Positions(session_logs', k, e) # {}]_vars

\* the exercise at the 0-based index has a completion record in the session
\* of the screen, in the table logs
Recorded(logs, index) ==
    Positions(logs, ParseInt(sessionId), exercises[index + 1].id) # {}

\* C26: the index of the current exercise stays within 0..n-1 during a
\* workout over n >= 1 exercises, also when Complete or Skip is pressed
\* while an earlier Complete is awaiting the store, and the index moves on
\* by one exercise at a time, which was either skipped or is recorded as
\* completed.
C26_IndexStaysInRange ==
    /\ [](exercises # <<>> => currentIndex \in 0..(Len(exercises) - 1))
    /\ [][exercises' = exercises /\ currentIndex' # currentIndex =>
             /\ currentIndex' = currentIndex + 1
             /\ lastOp'.op = "handleSkip" \/ Recorded(session_logs', currentIndex)]_vars

\* C30: when a store write fails while Complete is handled the workout does
\* not move on: the error is reported, the index and the summary flag stay
\* as they are and the same exercise remains current; after a failed
\* markExerciseComplete nothing is written and finishSession is not called.
C30_FailedWriteDoesNotAdvance ==
    [][lastOp'.op = "handleComplete" /\ lastOp'.err # NoError =>
          /\ output' = FailedToSave
          /\ currentIndex' = currentIndex
          /\ isComplete' = isComplete
          /\ Showing' = Showing
          /\ \A h \in handlers' : h \in handlers
          /\ lastOp'.args = <<"markExerciseComplete">> =>
                session_logs' = session_logs]_vars

\* finishSession has failed on the last exercise, which is recorded: the
\* exercise is still shown and the session is not finished
C30_Witness ==
    /\ lastOp.op = "handleComplete"
    /\ lastOp.err = StorageFailure
    /\ lastOp.args = <<"finishSession">>
    /\ Showing
    /\ currentIndex = Len(exercises) - 1
    /\ Recorded(session_logs, currentIndex)
    /\ ScreenRow(session_logs).completed = 0
    /\ output = FailedToSave

\* C28: every stored routine has a non-empty exercise id list whose ids are
\* catalog entries, after any createRoutine, updateRoutineExercises and
\* deleteRoutine calls, and a failing updateRoutineExercises leaves the
\* routines as they are.
C28_RoutineListsValid ==
    /\ [](\A i \in DOMAIN routines :
             /\ routines[i].exercise_order # <<>>
             /\ \A k \in DOMAIN routines[i].exercise_order :
                   routines[i].exercise_order[k] \in DOMAIN exercises_table)
    /\ [][lastOp'.op = "updateRoutineExercises" /\ lastOp'.err # NoError =>
             routines' = routines]_vars

\* C29: seeding is all-or-nothing across failures: whenever seedData has
\* returned without error, also after an earlier seedData call was
\* interrupted by a storage failure, the catalog is non-empty and there is
\* exactly one morning and one evening routine.
C29_SeedCompletesAfterFailure ==
    lastOp.op \in {"seedData", "initializeApp"} /\ lastOp.err = NoError =>
        /\ DOMAIN exercises_table # {}
        /\ Cardinality(OfType("morning")) = 1
        /\ Cardinality(OfType("evening")) = 1

====
